---- MODULE Spec2Model ----
(***************************************************************************)
(* Model of the paper trading engine (backend/app/services/paper_trading.py)*)
(* of Smart-Algo-Trading: orders, positions, the three fund buckets, the   *)
(* P&L counters, the LTP cache and the document store the engine persists  *)
(* to and reloads from on start-up.                                        *)
(*                                                                         *)
(* Money.  The code computes with floats.  Every amount and price of the   *)
(* model is held in units of 1/Scale rupee, Scale being a common multiple  *)
(* of every divisor the code can divide by within the bounds, so that the  *)
(* two divisions of _update_position are exact and no rounding is modelled.*)
(***************************************************************************)
EXTENDS Integers, Sequences, FiniteSets, TLC

\* ------------------------------------------------------------------ bounds
\* orders accepted or rejected by place_order in one behaviour
MaxOrders == 3
\* total bought (or sold) quantity of one position, in lots of QtyUnit
MaxLots == 3
\* monitoring loops start() launches in one behaviour
MaxStarts == 2
\* entry orders the bot gets accepted in one behaviour
MaxEntries == 3
\* positions a strategy opens in one behaviour
MaxOpens == 2
\* ticks the candle builder takes in one behaviour
MaxTicks == 3
\* ticks of the one-tick-a-minute run that fills the ring of closed candles
MaxRun == 502
\* prices update_brick takes for a symbol after one initialize_brick
MaxBricks == 4

\* ------------------------------------------------------- program constants
MAX_LOSS_PER_DAY == 5000
MAX_POSITIONS == 3
MAX_TRADES_PER_DAY == 10
INITIAL_CAPITAL == 100000
FALLBACK_PRICE == 100
None == -1

\* ------------------------------------------------------------ input sets
QtyUnit == 5

RECURSIVE Gcd(_, _)
Gcd(a, b) == IF b = 0 THEN a ELSE Gcd(b, a % b)

RECURSIVE LcmUpTo(_)
LcmUpTo(n) == IF n <= 1 THEN 1 ELSE LET l == LcmUpTo(n - 1) IN (l * n) \div Gcd(l, n)

Scale == LcmUpTo(MaxLots)

Rs(x) == x * Scale

Abs(x) == IF x < 0 THEN 0 - x ELSE x

Min(a, b) == IF a < b THEN a ELSE b

Symbols == {"RELIANCE", "INFY", "TCS", "HDFCBANK"}
Exchanges == {"NSE"}
Products == {"MIS"}
Sides == {"BUY", "SELL"}
Qtys == {QtyUnit, 2 * QtyUnit}
LtpPrices == {Rs(2500), Rs(2510)}
FetchPrices == {Rs(2500)}
LimitPrices == {Rs(2500)}

\* a tag is a sequence of tokens; None and "" are the empty sequence
NoTag == << >>
BotTag == <<"BOT_", "X">>
Tags == {NoTag, BotTag}

\* str.startswith("BOT_") on a tag that may be None
StartsWithBOT(tag) == Len(tag) > 0 /\ tag[1] = "BOT_"

SymbolKeys == Exchanges \X Symbols

\* ------------------------------------------------------------------ state
VARIABLES
    orders,            \* self.orders, by order id (the index)
    positions,         \* self.positions, a function on the open position keys
    trades,            \* self.trades
    available_funds, invested_funds, reserved_funds,
    realized_pnl, daily_pnl, total_pnl,
    trades_today,
    ltp_cache,         \* self.ltp_cache, None where no entry
    db,                \* the four collections of the document store
    last,              \* the last call and what its caller got back
    script,            \* progress along the BUY/SELL round-trip scenario
    allocSnap,         \* <<available, reserved, phase>>: the buckets before an allocate that
                       \* just succeeded, phase "reclaimed" once reclaim directly followed it
    closed,            \* audit of the position the last fill closed, if any
    audit,             \* per open position: what its SELL fills did to the funds
    soldBefore,        \* sum, over closing SELLs, of the sell value booked before them
    PAPER_TRADING_MODE, \* config.PAPER_TRADING as the process read it at start-up
    tick,              \* the tick thread inside update_ltp: where it is, and its locals
    overlap,           \* what happened to the engine while that update_ltp was in progress
    bot,               \* the TradingBot singleton: status, strategies, active positions, threads
    job,               \* the bot handler in progress: the steps it still has to take
    returned,          \* the bot handler that returned last, and what it was called with
    strategy,          \* one BaseStrategy instance: position, trades_today, pnl_today, range
    signal,            \* what its generate_signal returned last
    current_candles,   \* CandleBuilder.current_candles, by <<instrument_token, interval>>
    historical_candles, \* CandleBuilder.historical_candles, by <<instrument_token, interval>>
    fired,             \* the candles _trigger_callbacks was called with, in call order
    ticked,            \* the ticks process_tick has taken
    lock,              \* CandleBuilder.lock: "free" or the thread that holds it
    feeder,            \* the tick thread inside process_tick: where it is, and its tick
    renko_state,       \* RenkoCalculator.renko_state, by symbol
    renko_lock,        \* RenkoCalculator.lock: "free" or "held"
    renko_result,      \* what update_brick returned last, << >> before any call
    fed,               \* per symbol: the initial price and the prices update_brick took since
    hub,               \* the WebSocketHandler singleton
    link,              \* the upstream connection: "down", "connecting" or "up"
    subscribed,        \* the tokens subscribed upstream on the connection
    requested,         \* the tokens the callers' subscribe and unsubscribe calls ask for
    fetch,             \* the last get_historical_data call: arguments, requests, outcome
    market,            \* the last get_market_status call: its clock reading and what it returned
    processor,         \* the TickProcessor singleton
    delivered          \* the last upstream tick _on_ticks took, and the calls it led to

funds == <<available_funds, invested_funds, reserved_funds, realized_pnl, daily_pnl, total_pnl>>
engine == <<orders, positions, trades, funds, trades_today, ltp_cache>>
ghosts == <<last, script, allocSnap, closed, audit, soldBefore>>
\* what the process holds besides the paper engine
ticking == <<tick, overlap>>
botting == <<bot, job, returned>>
signalling == <<strategy, signal>>
candling == <<current_candles, historical_candles, fired, ticked, lock, feeder>>
renkoing == <<renko_state, renko_lock, renko_result, fed>>
hubbing == <<hub, link, subscribed, requested>>
apart == <<market, processor, delivered>>
aside == <<renkoing, hubbing, fetch, apart>>
feeds == <<signalling, candling, aside>>
others == <<PAPER_TRADING_MODE, ticking, botting, feeds>>
vars == <<engine, db, ghosts, others>>

NoMeta == << >>

Meta(av, inv, res, rea, tot, dai) ==
    [virtual_capital |-> Rs(INITIAL_CAPITAL), available_funds |-> av, invested_funds |-> inv,
     reserved_funds |-> res, realized_pnl |-> rea, total_pnl |-> tot, daily_pnl |-> dai]

\* what a failed call returned to its caller; "ok" after every call that succeeded
Ok == "ok"

\* the tick thread outside update_ltp
Idle == [pc |-> "idle"]

\* WebSocketHandler.__init__; ticker is whether initialize() has made one
WebSocketHandler ==
    [ticker |-> FALSE, is_connected |-> FALSE, subscribed_tokens |-> {},
     reconnect_attempts |-> 0, tick_callbacks |-> << >>]

\* TickProcessor.__init__
TickProcessor == [is_running |-> FALSE, token_meta |-> << >>]

\* no strategy constructed yet
NoStrategy == [kind |-> "none"]

\* TradingBot.__init__: threads are the monitoring loops alive, bot_thread the
\* one started last (0 for None), spawned what start() has launched so far
TradingBot ==
    [status |-> "STOPPED", strategies |-> << >>, active_positions |-> << >>,
     stop_flag |-> FALSE, threads |-> {}, bot_thread |-> 0, spawned |-> 0]

Init ==
    /\ orders = << >>
    /\ positions = << >>
    /\ trades = << >>
    /\ available_funds = Rs(INITIAL_CAPITAL)
    /\ invested_funds = 0
    /\ reserved_funds = 0
    /\ realized_pnl = 0
    /\ daily_pnl = 0
    /\ total_pnl = 0
    /\ trades_today = 0
    /\ ltp_cache = [k \in SymbolKeys |-> None]
    /\ db = [meta |-> NoMeta, orders |-> << >>, positions |-> << >>, trades |-> << >>]
    /\ last = Ok
    /\ script = 0
    /\ allocSnap = << >>
    /\ closed = << >>
    /\ audit = << >>
    /\ soldBefore = 0
    /\ PAPER_TRADING_MODE = TRUE
    /\ tick = Idle
    /\ overlap = << >>
    /\ bot = TradingBot
    /\ job = << >>
    /\ returned = << >>
    /\ strategy = NoStrategy
    /\ signal = << >>
    /\ current_candles = << >>
    /\ historical_candles = << >>
    /\ fired = << >>
    /\ ticked = << >>
    /\ lock = "free"
    /\ feeder = Idle
    /\ renko_state = << >>
    /\ renko_lock = "free"
    /\ renko_result = << >>
    /\ fed = << >>
    /\ hub = WebSocketHandler
    /\ link = "down"
    /\ subscribed = {}
    /\ requested = [tokens |-> {}, op |-> "none", of |-> {}]
    /\ fetch = << >>
    /\ market = << >>
    /\ processor = TickProcessor
    /\ delivered = << >>

\* a call that is no step of the round-trip scenario and fills nothing
OffScript ==
    /\ script' = -1
    /\ closed' = << >>
    /\ UNCHANGED <<audit, soldBefore>>

\* -------------------------------------------------------- fund allocation
allocate_funds(amount) ==
    IF amount > available_funds
    THEN /\ last' = "refused"
         /\ allocSnap' = << >>
         /\ OffScript
         /\ UNCHANGED <<engine, db>>
    ELSE /\ available_funds' = available_funds - amount
         /\ reserved_funds' = reserved_funds + amount
         /\ db' = [db EXCEPT !.meta = Meta(available_funds', invested_funds, reserved_funds',
                                           realized_pnl, total_pnl, daily_pnl)]
         /\ last' = Ok
         /\ allocSnap' = <<available_funds, reserved_funds, "allocated">>
         /\ OffScript
         /\ UNCHANGED <<orders, positions, trades, invested_funds, realized_pnl, daily_pnl,
                        total_pnl, trades_today, ltp_cache>>

\* ReclaimFunds zeroing the reserve without crediting it
ReclaimFunds_Drop(available, reserved) ==
    [available |-> available, reserved |-> 0]

\* the buckets after reclaim
ReclaimFunds(available, reserved) ==
    IF reserved > 0
    THEN [available |-> available + reserved, reserved |-> 0]
    ELSE [available |-> available, reserved |-> reserved]

reclaim_reserved_funds ==
    LET after == ReclaimFunds(available_funds, reserved_funds)
    IN  /\ available_funds' = after.available
        /\ reserved_funds' = after.reserved
        /\ db' = IF reserved_funds > 0
                 THEN [db EXCEPT !.meta = Meta(available_funds', invested_funds, reserved_funds',
                                               realized_pnl, total_pnl, daily_pnl)]
                 ELSE db
        /\ last' = Ok
        /\ allocSnap' = IF allocSnap # << >> /\ allocSnap[3] = "allocated"
                        THEN <<allocSnap[1], allocSnap[2], "reclaimed">> ELSE << >>
        /\ OffScript
        /\ UNCHANGED <<orders, positions, trades, invested_funds, realized_pnl, daily_pnl,
                       total_pnl, trades_today, ltp_cache>>

\* ------------------------------------------------------------ risk rules
\* the funds and loss rules alone
can_place_trade_Uncounted(required_funds, is_bot_trade) ==
    LET limit == IF is_bot_trade THEN available_funds + reserved_funds ELSE available_funds
    IN  IF required_funds > 0 /\ required_funds > limit
            THEN [allowed |-> FALSE, reason |-> "rejected_funds"]
        ELSE IF Abs(daily_pnl) >= Rs(MAX_LOSS_PER_DAY)
            THEN [allowed |-> FALSE, reason |-> "rejected_loss"]
        ELSE [allowed |-> TRUE, reason |-> "OK"]

can_place_trade(required_funds, is_bot_trade) ==
    LET limit == IF is_bot_trade THEN available_funds + reserved_funds ELSE available_funds
    IN  IF required_funds > 0 /\ required_funds > limit
            THEN [allowed |-> FALSE, reason |-> "rejected_funds"]
        ELSE IF Abs(daily_pnl) >= Rs(MAX_LOSS_PER_DAY)
            THEN [allowed |-> FALSE, reason |-> "rejected_loss"]
        ELSE IF Cardinality(DOMAIN positions) >= MAX_POSITIONS
            THEN [allowed |-> FALSE, reason |-> "rejected_positions"]
        ELSE IF trades_today >= MAX_TRADES_PER_DAY
            THEN [allowed |-> FALSE, reason |-> "rejected_trades"]
        ELSE [allowed |-> TRUE, reason |-> "OK"]

\* ------------------------------------------------------- position maths
NewPosition(symbol, exchange, product, fill_price) ==
    [symbol |-> symbol, exchange |-> exchange, product |-> product, quantity |-> 0,
     average_price |-> 0, last_price |-> fill_price, unrealised_pnl |-> 0,
     realised_pnl |-> 0, buy_quantity |-> 0, sell_quantity |-> 0,
     buy_value |-> 0, sell_value |-> 0]

_calculate_pnl(position) ==
    IF position.quantity > 0
        THEN [position EXCEPT !.unrealised_pnl =
                 (position.last_price - position.average_price) * position.quantity]
    ELSE IF position.quantity < 0
        THEN [position EXCEPT !.unrealised_pnl =
                 (position.average_price - position.last_price) * Abs(position.quantity)]
    ELSE [position EXCEPT !.realised_pnl = position.sell_value - position.buy_value,
                          !.unrealised_pnl = 0]

\* BuyFunds paying every BUY from available funds
BuyFunds_AvailableOnly(available, reserved, trade_value, is_bot_trade) ==
    [reserved |-> reserved, available |-> available - trade_value]

\* the buckets a filled BUY of value trade_value is paid from
BuyFunds(available, reserved, trade_value, is_bot_trade) ==
    IF is_bot_trade /\ reserved > 0
    THEN LET deduct_from_reserved == Min(reserved, trade_value)
             deduct_from_available == trade_value - deduct_from_reserved
         IN  [reserved |-> reserved - deduct_from_reserved,
              available |-> available - deduct_from_available]
    ELSE [reserved |-> reserved, available |-> available - trade_value]

\* SellFunds with a partial SELL booking its P&L against the whole buy value
SellFunds_WholeCost(position, quantity, trade_value) ==
    IF position.quantity = 0
    THEN [cost |-> position.buy_value, pnl |-> position.sell_value - position.buy_value]
    ELSE LET avg_cost == IF position.buy_quantity > 0
                         THEN position.buy_value \div position.buy_quantity ELSE 0
         IN  [cost |-> quantity * avg_cost, pnl |-> trade_value - position.buy_value]

\* the cost released from invested_funds and the P&L booked by a SELL fill;
\* position is the position after the fill's quantities were added
SellFunds(position, quantity, trade_value) ==
    IF position.quantity = 0
    THEN [cost |-> position.buy_value, pnl |-> position.sell_value - position.buy_value]
    ELSE LET avg_cost == IF position.buy_quantity > 0
                         THEN position.buy_value \div position.buy_quantity ELSE 0
             cost_of_sold == quantity * avg_cost
         IN  [cost |-> cost_of_sold, pnl |-> trade_value - cost_of_sold]

\* the average price written after a fill that leaves the position open
AveragePrice(position) ==
    Abs(position.buy_value - position.sell_value) \div Abs(position.quantity)

\* Remaining keeping a closed position in the map
Remaining_Kept(key, final) ==
    [k \in (DOMAIN positions) \cup {key} |-> IF k = key THEN final ELSE positions[k]]

\* the positions map after a fill: a position whose quantity is back to zero
\* is deleted, any other is stored under its key
Remaining(key, final) ==
    IF final.quantity = 0
    THEN [k \in (DOMAIN positions) \ {key} |-> positions[k]]
    ELSE [k \in (DOMAIN positions) \cup {key} |-> IF k = key THEN final ELSE positions[k]]

\* _update_position: the position after the fill and the new fund buckets
UpdatePosition(order, fill_price) ==
    LET position_key == <<order.tradingsymbol, order.exchange, order.product>>
        is_bot_trade == StartsWithBOT(order.tag)
        position == IF position_key \in DOMAIN positions THEN positions[position_key]
                    ELSE NewPosition(order.tradingsymbol, order.exchange, order.product, fill_price)
        trade_value == order.quantity * fill_price
        isBuy == order.transaction_type = "BUY"
        traded == IF isBuy
                  THEN [position EXCEPT !.buy_quantity = @ + order.quantity,
                                        !.buy_value = @ + trade_value,
                                        !.quantity = @ + order.quantity]
                  ELSE [position EXCEPT !.sell_quantity = @ + order.quantity,
                                        !.sell_value = @ + trade_value,
                                        !.quantity = @ - order.quantity]
        buy == BuyFunds(available_funds, reserved_funds, trade_value, is_bot_trade)
        sell == SellFunds(traded, order.quantity, trade_value)
        booked == IF ~isBuy /\ traded.quantity = 0
                  THEN [traded EXCEPT !.realised_pnl = sell.pnl] ELSE traded
        priced == IF booked.quantity # 0
                  THEN [booked EXCEPT !.average_price = AveragePrice(booked)] ELSE booked
        final == _calculate_pnl([priced EXCEPT !.last_price = fill_price])
    IN  [key |-> position_key,
         position |-> final,
         positions |-> Remaining(position_key, final),
         available |-> IF isBuy THEN buy.available
                       ELSE IF is_bot_trade THEN available_funds
                       ELSE available_funds + trade_value,
         reserved |-> IF isBuy THEN buy.reserved
                      ELSE IF is_bot_trade THEN reserved_funds + trade_value
                      ELSE reserved_funds,
         invested |-> IF isBuy THEN invested_funds + trade_value
                      ELSE invested_funds - sell.cost,
         pnl |-> IF isBuy THEN 0 ELSE sell.pnl,
         released |-> IF isBuy THEN 0 ELSE sell.cost,
         sold_before |-> position.sell_value,
         was_open |-> position_key \in DOMAIN positions]

\* ----------------------------------------------------------------- orders
\* PaperOrder(...) followed by __post_init__, which overwrites pending_quantity
PaperOrder(fields) == [fields EXCEPT !.pending_quantity = fields.quantity]

\* Python truth of an optional number: neither None nor zero
Truthy(x) == x # None /\ x # 0

\* the price _simulate_fill fills at; fetched is what the market data service
\* returned when the cache had no entry (None: unavailable or failed)
FillPrice(order, cached, fetched) ==
    IF order.order_type = "MARKET"
    THEN IF cached # None THEN cached
         ELSE IF fetched # None THEN fetched
         ELSE IF Truthy(order.price) THEN order.price ELSE Rs(FALLBACK_PRICE)
    ELSE order.price

\* the order as _simulate_fill leaves it
Filled(order, fill_price) ==
    [order EXCEPT !.status = "COMPLETE", !.filled_quantity = order.quantity,
                  !.pending_quantity = 0, !.average_price = fill_price]

TradeRecord(order, fill_price) ==
    [order_id |-> order.order_id, symbol |-> order.tradingsymbol,
     action |-> order.transaction_type, quantity |-> order.quantity,
     price |-> fill_price, tag |-> order.tag]

NewAudit == [real |-> 0, rel |-> 0, long |-> TRUE, sells |-> 0]

\* the next step of the round-trip scenario, or -1
ScriptOrder(symbol, side, quantity, order_type, product, price, tag) ==
    IF symbol = "RELIANCE" /\ quantity = 10 /\ order_type = "MARKET" /\ product = "MIS"
       /\ price = None /\ tag = NoTag
    THEN IF script = 1 /\ side = "BUY" THEN 2
         ELSE IF script = 3 /\ side = "SELL" THEN 4 ELSE -1
    ELSE -1

ScriptLtp(symbol, ltp) ==
    IF symbol = "RELIANCE" /\ script = 0 /\ ltp = Rs(2500) THEN 1
    ELSE IF symbol = "RELIANCE" /\ script = 2 /\ ltp = Rs(2510) THEN 3 ELSE -1

\* _safety_check letting every call through
_safety_check_Off == FALSE

\* does _safety_check raise: the process runs in live mode
_safety_check == ~PAPER_TRADING_MODE

\* Reject counting the refused order as a trade of the day
Reject_Counted(reason) ==
    /\ last' = reason
    /\ allocSnap' = << >>
    /\ OffScript
    /\ trades_today' = trades_today + 1
    /\ UNCHANGED <<orders, positions, trades, funds, ltp_cache, db>>

\* place_order raising "Risk rule violation"
Reject(reason) ==
    /\ last' = reason
    /\ allocSnap' = << >>
    /\ OffScript
    /\ UNCHANGED <<engine, db>>

\* place_order of an order the risk rules allowed
Accept(tradingsymbol, exchange, transaction_type, quantity, order_type, product,
       price, trigger_price, tag, fetched) ==
    LET order_id == Len(orders) + 1
        symbol_key == <<exchange, tradingsymbol>>
        order == PaperOrder(
                   [order_id |-> order_id, tradingsymbol |-> tradingsymbol,
                    exchange |-> exchange, transaction_type |-> transaction_type,
                    quantity |-> quantity, order_type |-> order_type, product |-> product,
                    status |-> "PENDING", price |-> price, trigger_price |-> trigger_price,
                    average_price |-> None, filled_quantity |-> 0, pending_quantity |-> 0,
                    cancelled_quantity |-> 0, tag |-> tag])
    IN  /\ last' = Ok
        /\ allocSnap' = << >>
        /\ IF order_type = "MARKET"
           THEN LET cached == ltp_cache[symbol_key]
                    fill_price == FillPrice(order, cached, fetched)
                    done == Filled(order, fill_price)
                    up == UpdatePosition(done, fill_price)
                    trade == TradeRecord(done, fill_price)
                    old == IF up.was_open THEN audit[up.key] ELSE NewAudit
                    new == [real |-> old.real + up.pnl, rel |-> old.rel + up.released,
                            long |-> old.long /\ up.position.quantity >= 0,
                            sells |-> old.sells + (IF transaction_type = "SELL" THEN 1 ELSE 0)]
                    isClosed == up.position.quantity = 0
                IN  /\ orders' = Append(orders, done)
                    /\ ltp_cache' = IF cached = None /\ fetched # None
                                    THEN [ltp_cache EXCEPT ![symbol_key] = fetched]
                                    ELSE ltp_cache
                    /\ positions' = up.positions
                    /\ available_funds' = up.available
                    /\ reserved_funds' = up.reserved
                    /\ invested_funds' = up.invested
                    /\ realized_pnl' = realized_pnl + up.pnl
                    /\ daily_pnl' = daily_pnl + up.pnl
                    /\ total_pnl' = total_pnl + up.pnl
                    /\ trades_today' = trades_today + 1
                    /\ trades' = Append(trades, trade)
                    /\ db' = [meta |-> Meta(available_funds', invested_funds', reserved_funds',
                                            realized_pnl', total_pnl', daily_pnl'),
                              orders |-> Append(db.orders, done),
                              positions |-> up.positions,
                              trades |-> Append(db.trades, trade)]
                    /\ audit' = [k \in DOMAIN up.positions |->
                                    IF k = up.key THEN new ELSE audit[k]]
                    /\ closed' = IF isClosed
                                 THEN <<[by |-> transaction_type,
                                         buy_value |-> up.position.buy_value,
                                         sell_value |-> up.position.sell_value,
                                         real |-> new.real, rel |-> new.rel,
                                         long |-> new.long, sells |-> new.sells]>>
                                 ELSE << >>
                    /\ soldBefore' = soldBefore + (IF isClosed /\ transaction_type = "SELL"
                                                   THEN up.sold_before ELSE 0)
                    /\ script' = ScriptOrder(tradingsymbol, transaction_type, quantity,
                                             order_type, product, price, tag)
           ELSE /\ orders' = Append(orders, order)
                /\ db' = [db EXCEPT !.orders = Append(db.orders, order)]
                /\ OffScript
                /\ UNCHANGED <<positions, trades, funds, trades_today, ltp_cache>>

\* the funds a BUY is checked against: quantity times the given price, else
\* the cached LTP, else the fallback
RequiredFunds(tradingsymbol, exchange, transaction_type, quantity, price) ==
    LET symbol_key == <<exchange, tradingsymbol>>
        estimated_price == IF Truthy(price) THEN price
                           ELSE IF ltp_cache[symbol_key] # None THEN ltp_cache[symbol_key]
                           ELSE Rs(FALLBACK_PRICE)
    IN  IF transaction_type = "BUY" THEN quantity * estimated_price ELSE 0

RiskCheck(tradingsymbol, exchange, transaction_type, quantity, price, tag) ==
    can_place_trade(RequiredFunds(tradingsymbol, exchange, transaction_type, quantity, price),
                    StartsWithBOT(tag))

place_order(tradingsymbol, exchange, transaction_type, quantity, order_type, product,
            price, trigger_price, tag, fetched) ==
    LET check == RiskCheck(tradingsymbol, exchange, transaction_type, quantity, price, tag)
    IN  IF _safety_check
        THEN Reject("safety")
        ELSE IF ~check.allowed
        THEN Reject(check.reason)
        ELSE Accept(tradingsymbol, exchange, transaction_type, quantity, order_type, product,
                    price, trigger_price, tag, fetched)

\* Open accepting every status but CANCELLED
Open_NotCancelled(status) == status # "CANCELLED"

\* the statuses cancel_order and modify_order act on
Open(status) == status \in {"PENDING", "OPEN"}

cancel_order(order_id) ==
    /\ allocSnap' = << >>
    /\ OffScript
    /\ UNCHANGED <<positions, trades, funds, trades_today, ltp_cache>>
    /\ IF _safety_check
       THEN /\ last' = "safety"
            /\ UNCHANGED <<orders, db>>
       ELSE IF order_id \notin DOMAIN orders
       THEN /\ last' = "cancel_unknown"
            /\ UNCHANGED <<orders, db>>
       ELSE IF ~Open(orders[order_id].status)
       THEN /\ last' = "cancel_closed"
            /\ UNCHANGED <<orders, db>>
       ELSE /\ orders' = [orders EXCEPT ![order_id] =
                            [@ EXCEPT !.status = "CANCELLED",
                                      !.cancelled_quantity = orders[order_id].pending_quantity,
                                      !.pending_quantity = 0]]
            /\ db' = [db EXCEPT !.orders[order_id] = orders'[order_id]]
            /\ last' = Ok

modify_order(order_id, quantity, price, trigger_price) ==
    /\ allocSnap' = << >>
    /\ OffScript
    /\ UNCHANGED <<positions, trades, funds, trades_today, ltp_cache>>
    /\ IF _safety_check
       THEN /\ last' = "safety"
            /\ UNCHANGED <<orders, db>>
       ELSE IF order_id \notin DOMAIN orders
       THEN /\ last' = "modify_unknown"
            /\ UNCHANGED <<orders, db>>
       ELSE IF ~Open(orders[order_id].status)
       THEN /\ last' = "modify_closed"
            /\ UNCHANGED <<orders, db>>
       ELSE LET o0 == orders[order_id]
                o1 == IF Truthy(quantity)
                      THEN [o0 EXCEPT !.quantity = quantity,
                                      !.pending_quantity = quantity - o0.filled_quantity]
                      ELSE o0
                o2 == IF Truthy(price) THEN [o1 EXCEPT !.price = price] ELSE o1
                o3 == IF Truthy(trigger_price)
                      THEN [o2 EXCEPT !.trigger_price = trigger_price] ELSE o2
            IN  /\ orders' = [orders EXCEPT ![order_id] = o3]
                /\ db' = [db EXCEPT !.orders[order_id] = o3]
                /\ last' = Ok

\* ------------------------------------------------------------ market data
RECURSIVE SumOver(_, _, _)
SumOver(f, keys, field) ==
    IF keys = {} THEN 0
    ELSE LET k == CHOOSE x \in keys : TRUE
         IN  (IF field = "unrealised_pnl" THEN f[k].unrealised_pnl ELSE f[k].realised_pnl)
             + SumOver(f, keys \ {k}, field)

TotalUnrealised(ps) == SumOver(ps, DOMAIN ps, "unrealised_pnl")
TotalRealised(ps) == SumOver(ps, DOMAIN ps, "realised_pnl")

\* does update_ltp write the funds record after touching a position
SavesMeta(updated) == updated

update_ltp(symbol, exchange, ltp) ==
    LET symbol_key == <<exchange, symbol>>
        hit(k) == positions[k].symbol = symbol /\ positions[k].exchange = exchange
        updated == \E k \in DOMAIN positions : hit(k)
        ps == [k \in DOMAIN positions |->
                 IF hit(k) THEN _calculate_pnl([positions[k] EXCEPT !.last_price = ltp])
                 ELSE positions[k]]
    IN  /\ ltp_cache' = [ltp_cache EXCEPT ![symbol_key] = ltp]
        /\ positions' = ps
        /\ daily_pnl' = TotalUnrealised(ps) + TotalRealised(ps)
        /\ total_pnl' = total_pnl + TotalRealised(ps)
        /\ db' = [db EXCEPT !.positions = ps,
                            !.meta = IF SavesMeta(updated)
                                     THEN Meta(available_funds, invested_funds, reserved_funds,
                                               realized_pnl, total_pnl', daily_pnl')
                                     ELSE @]
        /\ last' = Ok
        /\ allocSnap' = << >>
        /\ script' = ScriptLtp(symbol, ltp)
        /\ closed' = << >>
        /\ UNCHANGED <<orders, trades, available_funds, invested_funds, reserved_funds,
                       realized_pnl, trades_today, audit, soldBefore>>

\* ------------------------------------------- update_ltp on the tick thread
\* update_ltp takes no lock: the tick thread runs it statement by statement
\* while the API thread runs place_order.  Three steps: the cache write and the
\* loop over the positions; the two sums of _update_daily_pnl; its two writes
\* and the save.
TickLoop(symbol, exchange, ltp) ==
    LET symbol_key == <<exchange, symbol>>
        hit(k) == positions[k].symbol = symbol /\ positions[k].exchange = exchange
        updated == \E k \in DOMAIN positions : hit(k)
        ps == [k \in DOMAIN positions |->
                 IF hit(k) THEN _calculate_pnl([positions[k] EXCEPT !.last_price = ltp])
                 ELSE positions[k]]
    IN  /\ tick.pc = "idle"
        /\ ltp_cache' = [ltp_cache EXCEPT ![symbol_key] = ltp]
        /\ positions' = ps
        /\ db' = [db EXCEPT !.positions = ps]
        /\ tick' = [pc |-> "sum", symbol |-> symbol, exchange |-> exchange, ltp |-> ltp,
                    updated |-> updated]
        /\ overlap' = <<[fills |-> 0, same |-> ltp_cache[symbol_key] = ltp,
                         sums |-> TotalUnrealised(ps) + TotalRealised(ps),
                         realized_pnl |-> realized_pnl]>>
        /\ last' = Ok
        /\ allocSnap' = << >>
        /\ OffScript
        /\ UNCHANGED <<orders, trades, funds, trades_today, PAPER_TRADING_MODE, botting, feeds>>

TickSum ==
    /\ tick.pc = "sum"
    /\ tick' = [pc |-> "write", symbol |-> tick.symbol, exchange |-> tick.exchange,
                ltp |-> tick.ltp, updated |-> tick.updated,
                total_unrealised |-> TotalUnrealised(positions),
                total_realised |-> TotalRealised(positions)]
    /\ UNCHANGED <<engine, db, ghosts, PAPER_TRADING_MODE, overlap, botting, feeds>>

TickWrite ==
    /\ tick.pc = "write"
    /\ daily_pnl' = tick.total_unrealised + tick.total_realised
    /\ total_pnl' = total_pnl + tick.total_realised
    /\ db' = [db EXCEPT !.meta = IF SavesMeta(tick.updated)
                                  THEN Meta(available_funds, invested_funds, reserved_funds,
                                            realized_pnl, total_pnl', daily_pnl')
                                  ELSE @]
    /\ tick' = [pc |-> "done", symbol |-> tick.symbol, exchange |-> tick.exchange,
                ltp |-> tick.ltp]
    /\ UNCHANGED <<orders, positions, trades, available_funds, invested_funds, reserved_funds,
                   realized_pnl, trades_today, ltp_cache, ghosts, PAPER_TRADING_MODE, overlap,
                   botting, feeds>>

\* update_ltp returns to _process_ticks
TickReturn ==
    /\ tick.pc = "done"
    /\ tick' = Idle
    /\ overlap' = << >>
    /\ UNCHANGED <<engine, db, ghosts, PAPER_TRADING_MODE, botting, feeds>>

\* ---------------------------------------------------------------- restart
\* a fresh PaperTradingEngine: __init__ defaults, then _load_state
_load_state ==
    LET meta == db.meta
        has == meta # NoMeta
    IN  /\ available_funds' = IF has THEN meta.available_funds ELSE Rs(INITIAL_CAPITAL)
        /\ invested_funds' = IF has THEN meta.invested_funds ELSE 0
        /\ reserved_funds' = IF has THEN meta.reserved_funds ELSE 0
        /\ realized_pnl' = IF has THEN meta.realized_pnl ELSE 0
        /\ total_pnl' = IF has THEN meta.total_pnl ELSE 0
        /\ daily_pnl' = IF has THEN meta.daily_pnl ELSE 0
        /\ orders' = [i \in DOMAIN db.orders |-> PaperOrder(db.orders[i])]
        /\ positions' = db.positions
        /\ trades' = db.trades
        /\ trades_today' = Len(db.trades)
        /\ ltp_cache' = [k \in SymbolKeys |-> None]
        /\ last' = Ok
        /\ allocSnap' = << >>
        /\ OffScript
        /\ UNCHANGED db

\* the process restarted under the same configuration
Restart == _load_state /\ UNCHANGED others

\* the process restarted after config.PAPER_TRADING was set to mode
RestartAs(mode) == _load_state /\ PAPER_TRADING_MODE' = mode /\ UNCHANGED <<ticking, botting, feeds>>

\* ------------------------------------------------------------------ steps
\* an accepted order stays within the bounds: MaxOrders orders in the log and
\* MaxLots lots bought, or sold, in one position; a call the risk rules reject
\* is always possible
WithinBounds(cap, symbol, exchange, product, side, quantity, price, tag) ==
    LET key == <<symbol, exchange, product>>
        had == IF key \in DOMAIN positions
               THEN IF side = "BUY" THEN positions[key].buy_quantity
                    ELSE positions[key].sell_quantity
               ELSE 0
    IN  \/ _safety_check
        \/ ~RiskCheck(symbol, exchange, side, quantity, price, tag).allowed
        \/ /\ Len(orders) < cap
           /\ had + quantity <= MaxLots * QtyUnit

PlaceMarketIn(cap, symbols, sides, qtys, hints, tags, fetches) ==
    \E symbol \in symbols, exchange \in Exchanges, product \in Products, side \in sides,
       quantity \in qtys, price \in hints, tag \in tags :
        /\ WithinBounds(cap, symbol, exchange, product, side, quantity, price, tag)
        /\ \E fetched \in (IF ltp_cache[<<exchange, symbol>>] = None
                           THEN fetches \cup {None} ELSE {None}) :
              place_order(symbol, exchange, side, quantity, "MARKET", product,
                          price, None, tag, fetched)
        /\ UNCHANGED others

PlaceLimitIn(symbols, sides) ==
    \E symbol \in symbols, exchange \in Exchanges, product \in Products, side \in sides,
       price \in LimitPrices :
        /\ WithinBounds(MaxOrders, symbol, exchange, product, side, 0, price, NoTag)
        /\ place_order(symbol, exchange, side, QtyUnit, "LIMIT", product,
                       price, None, NoTag, None)
        /\ UNCHANGED others

\* order ids are drawn from the orders placed so far
CancelAny == \E order_id \in DOMAIN orders : cancel_order(order_id) /\ UNCHANGED others

ModifyInputs == {<<2 * QtyUnit, Rs(2510), Rs(2400)>>}

ModifyAny ==
    \E order_id \in DOMAIN orders, m \in ModifyInputs :
        modify_order(order_id, m[1], m[2], m[3]) /\ UNCHANGED others

ReclaimNow == reclaim_reserved_funds /\ UNCHANGED others

AllocateIn(amounts) == \E amount \in amounts : allocate_funds(amount) /\ UNCHANGED others

UpdateLtpIn(symbols, prices) ==
    \E symbol \in symbols, exchange \in Exchanges, ltp \in prices :
        update_ltp(symbol, exchange, ltp) /\ UNCHANGED others

\* ------------------------------------------------------------- trading bot
\* TradingBot and the OrderService calls it makes, in paper mode.  A handler
\* that calls the paper engine more than once is a sequence of steps, one per
\* engine call, held in job; while job is not empty no other handler starts.
AutoTag == <<"AUTO_SQUAREOFF">>
BotTagOf(symbol) == <<"BOT_", symbol>>
\* f"SL_{tag}" if tag else "SL"
SlTagOf(tag) == IF tag = NoTag THEN <<"SL">> ELSE <<"SL_">> \o tag

\* a statement that calls nothing of the paper engine
EngineIdle == UNCHANGED <<engine, db, ghosts>>

\* self.strategies[symbol] = strategy for each symbol of the list: a dict keeps
\* the place of a key it already holds
RECURSIVE WithStrategies(_, _)
WithStrategies(strategies, symbols) ==
    IF symbols = << >> THEN strategies
    ELSE WithStrategies(IF \E i \in DOMAIN strategies : strategies[i] = Head(symbols)
                        THEN strategies ELSE Append(strategies, Head(symbols)),
                        Tail(symbols))

start(symbols, capital_per_symbol, authenticated) ==
    LET total_allocated_capital == Len(symbols) * capital_per_symbol
        created == [bot EXCEPT !.strategies = WithStrategies(bot.strategies, symbols)]
        thread == bot.spawned + 1
        result(success) == <<[handler |-> "start", success |-> success, status |-> bot.status]>>
    IN  /\ UNCHANGED job
        /\ IF bot.status = "RUNNING" \/ ~authenticated
           THEN /\ returned' = result(FALSE)
                /\ UNCHANGED bot
                /\ EngineIdle
           ELSE IF PAPER_TRADING_MODE /\ total_allocated_capital > available_funds
           THEN /\ allocate_funds(total_allocated_capital)
                /\ bot' = [created EXCEPT !.status = "ERROR"]
                /\ returned' = result(FALSE)
           ELSE /\ IF PAPER_TRADING_MODE THEN allocate_funds(total_allocated_capital)
                   ELSE EngineIdle
                /\ bot' = [created EXCEPT !.status = "RUNNING", !.stop_flag = FALSE,
                                          !.threads = @ \cup {thread},
                                          !.bot_thread = thread, !.spawned = thread]
                /\ returned' = result(TRUE)

pause ==
    /\ UNCHANGED job
    /\ EngineIdle
    /\ returned' = <<[handler |-> "pause", success |-> bot.status = "RUNNING"]>>
    /\ bot' = IF bot.status = "RUNNING" THEN [bot EXCEPT !.status = "PAUSED"] ELSE bot

resume ==
    /\ UNCHANGED job
    /\ EngineIdle
    /\ returned' = <<[handler |-> "resume", success |-> bot.status = "PAUSED"]>>
    /\ bot' = IF bot.status = "PAUSED" THEN [bot EXCEPT !.status = "RUNNING"] ELSE bot

\* order_service.auto_square_off: the positions as get_positions returns them
\* now, those of quantity 0 skipped, then the pending orders
SquareOffSteps ==
    LET open == {key \in DOMAIN positions : positions[key].quantity # 0}
    IN  (IF open = {} THEN << >> ELSE <<[op |-> "close", left |-> open]>>)
        \o <<[op |-> "cancel_all"]>>

\* stop() up to its first call of the engine; rest is what the caller does once
\* stop has returned.  Thread.join raises RuntimeError on the current thread;
\* join(timeout=5) on another thread returns once the loop has seen the flag
\* and left, or after five seconds with the loop still asleep.
stop(square_off_positions, caller, rest) ==
    /\ EngineIdle
    /\ IF bot.status = "STOPPED"
       THEN /\ returned' = <<[handler |-> "stop", success |-> FALSE,
                              square_off_positions |-> square_off_positions]>>
            /\ UNCHANGED bot
            /\ job' = rest
       ELSE IF bot.bot_thread # 0 /\ caller = bot.bot_thread
       THEN /\ returned' = <<[handler |-> "stop", success |-> FALSE,
                              square_off_positions |-> square_off_positions]>>
            /\ bot' = [bot EXCEPT !.status = "ERROR", !.stop_flag = TRUE]
            /\ job' = rest
       ELSE /\ returned' = << >>
            /\ \E joined \in BOOLEAN :
                  bot' = [bot EXCEPT !.status = "STOPPING", !.stop_flag = TRUE,
                                     !.threads = IF joined THEN @ \ {bot.bot_thread} ELSE @]
            /\ job' = (IF square_off_positions THEN SquareOffSteps ELSE << >>)
                      \o <<[op |-> "stop_tail", square_off_positions |-> square_off_positions]>>
                      \o rest

\* stop() from its reclaim to its return
stop_tail ==
    /\ job # << >> /\ Head(job).op = "stop_tail"
    /\ IF PAPER_TRADING_MODE THEN reclaim_reserved_funds ELSE EngineIdle
    /\ bot' = [bot EXCEPT !.strategies = << >>, !.active_positions = << >>,
                          !.status = "STOPPED"]
    /\ returned' = <<[handler |-> "stop", success |-> TRUE,
                      square_off_positions |-> Head(job).square_off_positions]>>
    /\ job' = Tail(job)

\* stop() called by a handler in progress
stop_called ==
    /\ job # << >> /\ Head(job).op = "stop"
    /\ stop(Head(job).square_off_positions, Head(job).caller, Tail(job))

\* one position of square_off_all_positions: a MARKET order of the opposite
\* side; what place_order raises is caught and the loop goes on
square_off_position ==
    /\ job # << >> /\ Head(job).op = "close"
    /\ PAPER_TRADING_MODE
    /\ \E key \in Head(job).left :
        LET quantity == positions[key].quantity
            left == Head(job).left \ {key}
        IN  /\ place_order(key[1], key[2], IF quantity > 0 THEN "SELL" ELSE "BUY",
                           Abs(quantity), "MARKET", key[3], None, None, AutoTag, None)
            /\ job' = (IF left = {} THEN << >> ELSE <<[op |-> "close", left |-> left]>>)
                      \o Tail(job)
    /\ UNCHANGED <<bot, returned>>

\* an order id of the upstream account: never one the paper engine issued
UpstreamOrderId == 0

\* cancel_all_pending_orders: get_orders asks the upstream account, whatever
\* the mode; it raises, or returns the upstream orders, and each pending one is
\* passed to cancel_order
cancel_all_pending_orders ==
    /\ job # << >> /\ Head(job).op = "cancel_all"
    /\ PAPER_TRADING_MODE
    /\ \E upstream \in {"raises", "pending"} :
          IF upstream = "pending" THEN cancel_order(UpstreamOrderId) ELSE EngineIdle
    /\ job' = Tail(job)
    /\ UNCHANGED <<bot, returned>>

\* _bot_loop leaves its while loop after _auto_square_off
loop_break ==
    /\ job # << >> /\ Head(job).op = "break"
    /\ EngineIdle
    /\ bot' = [bot EXCEPT !.threads = @ \ {Head(job).thread}]
    /\ returned' = <<[handler |-> "_auto_square_off", thread |-> Head(job).thread]>>
    /\ job' = Tail(job)

\* the stop-loss price and quantity the strategies put in their signals
SignalStopLoss == Rs(2400)
SignalQuantity == QtyUnit
StrategyPrices == {Rs(2500)}
SignalTypes == {"BUY", "SELL", "HOLD", "EXIT"}

\* bot entry orders accepted so far
Entries == Cardinality({i \in DOMAIN orders : StartsWithBOT(orders[i].tag)})

\* one more accepted entry stays within MaxEntries entries and MaxLots lots
EntryWithinBounds(symbol, side) ==
    LET key == <<symbol, "NSE", "MIS">>
        had == IF key \in DOMAIN positions
               THEN IF side = "BUY" THEN positions[key].buy_quantity
                    ELSE positions[key].sell_quantity
               ELSE 0
    IN  \/ ~RiskCheck(symbol, "NSE", side, SignalQuantity, None, BotTagOf(symbol)).allowed
        \/ /\ Entries < MaxEntries
           /\ had + SignalQuantity <= MaxLots * QtyUnit

\* the steps of _process_strategies from strategy number i on
StrategiesFrom(i) == IF i <= Len(bot.strategies) THEN <<[op |-> "strategy", i |-> i]>> ELSE << >>

\* one strategy of _process_strategies up to generate_signal: no data or no
\* price and the strategy is passed over, else the engine gets the price
process_strategy ==
    /\ job # << >> /\ Head(job).op = "strategy"
    /\ PAPER_TRADING_MODE
    /\ LET i == Head(job).i
           symbol == bot.strategies[i]
       IN  \/ /\ EngineIdle
              /\ job' = StrategiesFrom(i + 1) \o Tail(job)
           \/ \E current_price \in StrategyPrices :
                 /\ update_ltp(symbol, "NSE", current_price)
                 /\ job' = <<[op |-> "signal", symbol |-> symbol]>>
                           \o StrategiesFrom(i + 1) \o Tail(job)
    /\ UNCHANGED <<bot, returned>>

\* what _execute_signal reports for a signal that placed no order
Executed(signal_type, symbol) ==
    <<[handler |-> "_execute_signal", signal_type |-> signal_type, symbol |-> symbol,
       held |-> <<symbol, "NSE", "MIS">> \in DOMAIN positions,
       entry |-> FALSE, sl |-> FALSE]>>

\* generate_signal returning None or a signal, and _execute_signal up to the
\* entry order of place_market_order_with_sl; what place_order raises ends the
\* handler.  HOLD and EXIT place nothing.
_execute_signal ==
    /\ job # << >> /\ Head(job).op = "signal"
    /\ PAPER_TRADING_MODE
    /\ UNCHANGED bot
    /\ LET symbol == Head(job).symbol
       IN  \/ /\ EngineIdle
              /\ job' = Tail(job)
              /\ UNCHANGED returned
           \/ \E signal_type \in SignalTypes \ {"BUY", "SELL"} :
                 /\ EngineIdle
                 /\ job' = Tail(job)
                 /\ returned' = Executed(signal_type, symbol)
           \/ \E signal_type \in SignalTypes \cap {"BUY", "SELL"} :
                 LET allowed == RiskCheck(symbol, "NSE", signal_type, SignalQuantity, None,
                                          BotTagOf(symbol)).allowed
                 IN  /\ EntryWithinBounds(symbol, signal_type)
                     /\ place_order(symbol, "NSE", signal_type, SignalQuantity, "MARKET",
                                    "MIS", None, None, BotTagOf(symbol), None)
                     /\ job' = (IF allowed
                                THEN <<[op |-> "sl", symbol |-> symbol,
                                        transaction_type |-> signal_type,
                                        market_order_id |-> Len(orders) + 1]>>
                                ELSE << >>) \o Tail(job)
                     /\ returned' = IF allowed THEN << >> ELSE Executed(signal_type, symbol)

\* the stop-loss order of place_market_order_with_sl, and _execute_signal
\* recording the pair; what place_order raises ends the handler
place_market_order_with_sl ==
    /\ job # << >> /\ Head(job).op = "sl"
    /\ PAPER_TRADING_MODE
    /\ LET symbol == Head(job).symbol
           transaction_type == Head(job).transaction_type
           sl_transaction_type == IF transaction_type = "BUY" THEN "SELL" ELSE "BUY"
           tag == SlTagOf(BotTagOf(symbol))
           allowed == RiskCheck(symbol, "NSE", sl_transaction_type, SignalQuantity, None,
                                tag).allowed
           pair == [quantity |-> IF transaction_type = "BUY" THEN SignalQuantity
                                 ELSE 0 - SignalQuantity,
                    market_order_id |-> Head(job).market_order_id,
                    sl_order_id |-> Len(orders) + 1]
       IN  /\ place_order(symbol, "NSE", sl_transaction_type, SignalQuantity, "SL-M", "MIS",
                          None, SignalStopLoss, tag, None)
           /\ bot' = IF allowed
                     THEN [bot EXCEPT !.active_positions =
                             [s \in DOMAIN @ \cup {symbol} |-> IF s = symbol THEN pair ELSE @[s]]]
                     ELSE bot
           /\ returned' = <<[handler |-> "_execute_signal", signal_type |-> transaction_type,
                             symbol |-> symbol, held |-> TRUE, entry |-> TRUE,
                             sl |-> allowed]>>
           /\ job' = Tail(job)

\* one pass of the while loop of _bot_loop on a monitoring thread, up to its
\* first call of the engine; the batch price refresh at its top finds no price
_bot_loop(thread, market_open, past_square_off) ==
    IF bot.stop_flag
    THEN /\ bot' = [bot EXCEPT !.threads = @ \ {thread}]
         /\ EngineIdle
         /\ UNCHANGED <<job, returned>>
    ELSE IF ~market_open
    THEN UNCHANGED <<engine, db, ghosts, botting>>
    ELSE IF past_square_off
    THEN /\ job' = SquareOffSteps
                   \o <<[op |-> "stop", square_off_positions |-> FALSE, caller |-> thread],
                        [op |-> "break", thread |-> thread]>>
         /\ returned' = << >>
         /\ EngineIdle
         /\ UNCHANGED bot
    ELSE IF bot.status = "RUNNING"
    THEN /\ job' = StrategiesFrom(1)
         /\ EngineIdle
         /\ UNCHANGED <<bot, returned>>
    ELSE UNCHANGED <<engine, db, ghosts, botting>>

\* ---- the bot: start, pause, resume, stop, and its monitoring loop
CAPITAL_PER_SYMBOL == 3000
StartSymbols == {<<"RELIANCE", "INFY", "TCS">>}

\* start() by the API, at most cap launches of the loop in one behaviour
StartOf(lists, cap, logins) ==
    \E symbols \in lists, authenticated \in logins :
        /\ job = << >>
        /\ bot.status = "RUNNING" \/ ~authenticated \/ bot.spawned < cap
        /\ start(symbols, Rs(CAPITAL_PER_SYMBOL), authenticated)
        /\ UNCHANGED <<PAPER_TRADING_MODE, ticking, feeds>>

StartIn(cap, logins) == StartOf(StartSymbols, cap, logins)

StopNow ==
    \E square_off_positions \in BOOLEAN :
        /\ job = << >>
        /\ stop(square_off_positions, 0, << >>)
        /\ UNCHANGED <<PAPER_TRADING_MODE, ticking, feeds>>

\* a pass of the monitoring loop at one of the given times of day
LoopAt(times) ==
    \E thread \in bot.threads, time \in times :
        /\ job = << >>
        /\ _bot_loop(thread, time # "closed", time = "square_off")
        /\ UNCHANGED <<PAPER_TRADING_MODE, ticking, feeds>>

AutoStart == StartIn(1, {TRUE})
AutoStop == StopNow
AutoLoop == LoopAt({"closed", "open", "square_off"})
AutoStrategy == process_strategy /\ UNCHANGED <<PAPER_TRADING_MODE, ticking, feeds>>
AutoSignal == _execute_signal /\ UNCHANGED <<PAPER_TRADING_MODE, ticking, feeds>>
AutoStopLoss == place_market_order_with_sl /\ UNCHANGED <<PAPER_TRADING_MODE, ticking, feeds>>
AutoClose == square_off_position /\ UNCHANGED <<PAPER_TRADING_MODE, ticking, feeds>>
AutoCancel == cancel_all_pending_orders /\ UNCHANGED <<PAPER_TRADING_MODE, ticking, feeds>>
AutoStopCalled == stop_called /\ UNCHANGED <<PAPER_TRADING_MODE, ticking, feeds>>
AutoStopTail == stop_tail /\ UNCHANGED <<PAPER_TRADING_MODE, ticking, feeds>>
AutoBreak == loop_break /\ UNCHANGED <<PAPER_TRADING_MODE, ticking, feeds>>

NextAuto ==
    \/ AutoStart
    \/ AutoStop
    \/ AutoLoop
    \/ AutoStrategy
    \/ AutoSignal
    \/ AutoStopLoss
    \/ AutoClose
    \/ AutoCancel
    \/ AutoStopCalled
    \/ AutoStopTail
    \/ AutoBreak

SpecAuto == Init /\ [][NextAuto]_vars

\* ---- the bot's controls with no market to trade in: the loop sees the market
\* closed, or open past the square-off time
ControlStart == StartIn(MaxStarts, BOOLEAN)
ControlPause == job = << >> /\ pause /\ UNCHANGED <<PAPER_TRADING_MODE, ticking, feeds>>
ControlResume == job = << >> /\ resume /\ UNCHANGED <<PAPER_TRADING_MODE, ticking, feeds>>
ControlStop == StopNow
ControlLoop == LoopAt({"closed", "square_off"})
ControlCancel == AutoCancel
ControlStopCalled == AutoStopCalled
ControlStopTail == AutoStopTail
ControlBreak == AutoBreak

NextControl ==
    \/ ControlStart
    \/ ControlPause
    \/ ControlResume
    \/ ControlStop
    \/ ControlLoop
    \/ ControlCancel
    \/ ControlStopCalled
    \/ ControlStopTail
    \/ ControlBreak

SpecControl == Init /\ [][NextControl]_vars

\* ---- the bot started and stopped again and again, with a market to trade in
RestartStart == StartOf({<<"RELIANCE">>}, MaxStarts, {TRUE})
RestartLoop == LoopAt({"closed", "open"})

NextRestart ==
    \/ RestartStart
    \/ AutoStop
    \/ RestartLoop
    \/ AutoStrategy
    \/ AutoSignal
    \/ AutoStopLoss
    \/ AutoClose
    \/ AutoCancel
    \/ AutoStopTail

SpecRestart == Init /\ [][NextRestart]_vars

\* ---- the engine's fund operations: MARKET orders, allocate, reclaim, LTP
FundsPlace == PlaceMarketIn(MaxOrders, {"RELIANCE"}, Sides, Qtys, {None}, {NoTag}, FetchPrices)
FundsAllocate == AllocateIn({Rs(40000)})
FundsReclaim == ReclaimNow
FundsLtp == UpdateLtpIn({"RELIANCE"}, LtpPrices)

NextFunds ==
    \/ FundsPlace
    \/ FundsAllocate
    \/ FundsReclaim
    \/ FundsLtp

SpecFunds == Init /\ [][NextFunds]_vars

\* ---- a bot trading on reserved funds
BotPlace == PlaceMarketIn(MaxOrders, {"RELIANCE"}, Sides, {2 * QtyUnit}, {None}, Tags, {})
BotAllocate == AllocateIn({0, Rs(20000)})
BotReclaim == ReclaimNow
BotLtp == UpdateLtpIn({"RELIANCE"}, {Rs(2500)})

NextBot ==
    \/ BotPlace
    \/ BotAllocate
    \/ BotReclaim
    \/ BotLtp

SpecBot == Init /\ [][NextBot]_vars

\* ---- the risk rules: three symbols, and as many fills as the rules allow
RiskPlace == PlaceMarketIn(MAX_TRADES_PER_DAY, {"RELIANCE"}, Sides, {2 * QtyUnit}, {None}, {NoTag}, {})
RiskPlaceMore == PlaceMarketIn(MAX_TRADES_PER_DAY, {"INFY", "TCS"}, {"BUY"}, {2 * QtyUnit}, {None}, {NoTag}, {})
RiskAllocate == AllocateIn({Rs(INITIAL_CAPITAL)})
RiskLtp == UpdateLtpIn({"RELIANCE"}, {Rs(2500)})

NextRisk ==
    \/ RiskPlace
    \/ RiskPlaceMore
    \/ RiskAllocate
    \/ RiskLtp

SpecRisk == Init /\ [][NextRisk]_vars

\* ---- the position and trade limits: more symbols than positions allowed, and
\* more orders than trades allowed in a day
LimitsPlace ==
    PlaceMarketIn(MAX_TRADES_PER_DAY + 2, {"RELIANCE"}, Sides, {2 * QtyUnit}, {None}, {NoTag}, {})
LimitsPlaceMore ==
    PlaceMarketIn(MAX_TRADES_PER_DAY + 2, Symbols \ {"RELIANCE"}, {"BUY"}, {2 * QtyUnit},
                  {None}, {NoTag}, {})

NextLimits ==
    \/ LimitsPlace
    \/ LimitsPlaceMore

SpecLimits == Init /\ [][NextLimits]_vars

\* ---- MARKET orders that carry a price hint, beside a cached price
HintPrices == {None, Rs(2500)}
HintPlace ==
    PlaceMarketIn(MaxOrders, {"RELIANCE"}, Sides, {2 * QtyUnit}, HintPrices, {NoTag}, {})
HintAllocate == AllocateIn({Rs(75000)})
HintLtp == UpdateLtpIn({"RELIANCE"}, LtpPrices)

NextHint ==
    \/ HintPlace
    \/ HintAllocate
    \/ HintLtp

SpecHint == Init /\ [][NextHint]_vars

\* ---- the order life cycle: place, fill, cancel, modify, restart
OrdersPlace == PlaceMarketIn(MaxOrders, {"RELIANCE"}, Sides, {QtyUnit}, {None}, {NoTag}, {})
OrdersLimit == PlaceLimitIn({"RELIANCE"}, {"SELL"})
OrdersCancel == CancelAny
OrdersModify == ModifyAny
OrdersRestart == Restart

NextOrders ==
    \/ OrdersPlace
    \/ OrdersLimit
    \/ OrdersCancel
    \/ OrdersModify
    \/ OrdersRestart

SpecOrders == Init /\ [][NextOrders]_vars

\* ---- the order operations of a process that may be configured for live mode
LivePlace == PlaceMarketIn(MaxOrders, {"RELIANCE"}, Sides, {QtyUnit}, {None}, {NoTag}, {})
LiveLimit == PlaceLimitIn({"RELIANCE"}, {"SELL"})
LiveCancel == CancelAny
LiveModify == ModifyAny
LiveRestart == \E mode \in BOOLEAN : RestartAs(mode)

NextLive ==
    \/ LivePlace
    \/ LiveLimit
    \/ LiveCancel
    \/ LiveModify
    \/ LiveRestart

SpecLive == Init /\ [][NextLive]_vars

\* ---- the tick thread in update_ltp while the API thread places orders
TickPlace ==
    \E symbol \in {"RELIANCE"}, exchange \in Exchanges, product \in Products, side \in Sides :
        /\ WithinBounds(MaxOrders, symbol, exchange, product, side, QtyUnit, None, NoTag)
        /\ place_order(symbol, exchange, side, QtyUnit, "MARKET", product, None, None, NoTag, None)
        /\ overlap' = IF overlap # << >> /\ Len(trades') > Len(trades)
                      THEN <<[overlap[1] EXCEPT !.fills = @ + 1]>> ELSE overlap
        /\ UNCHANGED <<PAPER_TRADING_MODE, tick, botting, feeds>>

TickLtp == \E ltp \in LtpPrices : TickLoop("RELIANCE", "NSE", ltp)

NextTick ==
    \/ TickPlace
    \/ TickLtp
    \/ TickSum
    \/ TickWrite
    \/ TickReturn

SpecTick == Init /\ [][NextTick]_vars

\* ---- the strategies built on BaseStrategy: scalping, EMA scalping, opening range
\* Strategy prices are in paise, which keeps every stop-loss and target of the
\* prices below a whole number.
Paise(x) == x * 100

StrategyKinds == {"scalping", "ema_scalping", "orb"}
StrategyTicks == {Paise(2450), Paise(2480), Paise(2500), Paise(2530), Paise(2560)}
\* the opening range an ORB strategy reads off the first candles of the day
OpeningRange == [low |-> Paise(2490), high |-> Paise(2510)]

\* StrategyConfig's risk limits
StrategyConfig == [max_loss_per_day |-> Paise(5000), max_trades_per_day |-> 10]

\* BaseStrategy.__init__ and the subclass's; an ORB strategy has no range yet
NewStrategy(kind) ==
    [kind |-> kind, position |-> << >>, trades_today |-> 0, pnl_today |-> 0,
     range_set |-> FALSE, range_high |-> None, range_low |-> None]

\* sl_pct and target_pct of each strategy, in thousandths
sl_pct(kind) == IF kind = "scalping" THEN 2 ELSE 5
target_pct(kind) == IF kind = "scalping" THEN 4 ELSE 10

calculate_stop_loss(kind, entry_price, signal_type) ==
    IF signal_type = "BUY"
    THEN (entry_price * (1000 - sl_pct(kind))) \div 1000
    ELSE (entry_price * (1000 + sl_pct(kind))) \div 1000

calculate_target(kind, entry_price, signal_type) ==
    IF signal_type = "BUY"
    THEN (entry_price * (1000 + target_pct(kind))) \div 1000
    ELSE (entry_price * (1000 - target_pct(kind))) \div 1000

TradingSignal(signal_type, price, quantity, stop_loss, target, reason) ==
    [signal_type |-> signal_type, price |-> price, quantity |-> quantity,
     stop_loss |-> stop_loss, target |-> target, reason |-> reason]

check_risk_limits(s) ==
    IF Abs(s.pnl_today) >= StrategyConfig.max_loss_per_day THEN FALSE
    ELSE IF s.trades_today >= StrategyConfig.max_trades_per_day THEN FALSE
    ELSE IF s.position # << >> THEN FALSE
    ELSE TRUE

update_position(s, current_price) ==
    IF s.position = << >> THEN s
    ELSE LET position == s.position[1]
         IN  [s EXCEPT !.position =
                 <<[position EXCEPT
                       !.current_price = current_price,
                       !.pnl = IF position.position_type = "LONG"
                               THEN (current_price - position.entry_price) * position.quantity
                               ELSE (position.entry_price - current_price) * position.quantity]>>]

\* the reason check_exit_conditions gives for leaving the position at this
\* price, "" when neither its stop-loss nor its target is hit
ExitReason(position, current_price) ==
    IF position.position_type = "LONG"
    THEN IF current_price <= position.stop_loss THEN "Stop-loss hit"
         ELSE IF current_price >= position.target THEN "Target reached"
         ELSE ""
    ELSE IF current_price >= position.stop_loss THEN "Stop-loss hit"
         ELSE IF current_price <= position.target THEN "Target reached"
         ELSE ""

\* << >> for None
check_exit_conditions(s, current_price) ==
    IF s.position = << >> THEN << >>
    ELSE IF ExitReason(s.position[1], current_price) = "" THEN << >>
    ELSE <<TradingSignal("EXIT", current_price, s.position[1].quantity, None, None,
                         ExitReason(s.position[1], current_price))>>

\* the entry a scalping or EMA scalping strategy derives from its indicator
\* (the RSI against its thresholds, the EMA cross), "NONE" when it gives none
IndicatorEntry(kind, indicator, current_price) ==
    IF indicator = "NONE" THEN << >>
    ELSE <<TradingSignal(indicator, current_price, 0,
                         calculate_stop_loss(kind, current_price, indicator),
                         calculate_target(kind, current_price, indicator), "entry")>>

\* the breakout entry of an ORB strategy whose range is set
BreakoutEntry(s, current_price) ==
    IF current_price > s.range_high
    THEN <<TradingSignal("BUY", current_price, 0, s.range_low,
                         (current_price * (1000 + target_pct(s.kind))) \div 1000, "entry")>>
    ELSE IF current_price < s.range_low
    THEN <<TradingSignal("SELL", current_price, 0, s.range_high,
                         (current_price * (1000 - target_pct(s.kind))) \div 1000, "entry")>>
    ELSE << >>

\* generate_signal of the three strategies: update_position, the risk check,
\* the exit check, no entry while in a position, then the entry logic.
\* indicator is what the data frame makes of the entry rule, ranged whether
\* the opening range can be read off it
generate_signal(current_price, indicator, ranged) ==
    LET s == update_position(strategy, current_price)
        ranging == IF s.kind = "orb" /\ ~s.range_set /\ ranged
                   THEN [s EXCEPT !.range_set = TRUE, !.range_high = OpeningRange.high,
                                  !.range_low = OpeningRange.low]
                   ELSE s
    IN  IF ~check_risk_limits(s)
        THEN strategy' = s /\ signal' = << >>
        ELSE IF check_exit_conditions(s, current_price) # << >>
        THEN strategy' = s /\ signal' = check_exit_conditions(s, current_price)
        ELSE IF s.position # << >>
        THEN strategy' = s /\ signal' = << >>
        ELSE IF s.kind = "orb"
        THEN /\ strategy' = ranging
             /\ signal' = IF ranging.range_set THEN BreakoutEntry(ranging, current_price)
                          ELSE << >>
        ELSE strategy' = s /\ signal' = IndicatorEntry(s.kind, indicator, current_price)

open_position(sig) ==
    strategy' = [strategy EXCEPT
                    !.position = <<[position_type |-> IF sig.signal_type = "BUY"
                                                      THEN "LONG" ELSE "SHORT",
                                    entry_price |-> sig.price, quantity |-> sig.quantity,
                                    stop_loss |-> sig.stop_loss, target |-> sig.target,
                                    current_price |-> sig.price, pnl |-> 0]>>,
                    !.trades_today = @ + 1]

close_position(exit_price) ==
    IF strategy.position = << >> THEN UNCHANGED strategy
    ELSE LET position == strategy.position[1]
             pnl == IF position.position_type = "LONG"
                    THEN (exit_price - position.entry_price) * position.quantity
                    ELSE (position.entry_price - exit_price) * position.quantity
         IN  strategy' = [strategy EXCEPT !.pnl_today = @ + pnl, !.position = << >>]

\* everything of the process a strategy call leaves alone
StrategyOnly ==
    UNCHANGED <<engine, db, ghosts, PAPER_TRADING_MODE, ticking, botting, candling, aside>>

StrategyNew ==
    /\ strategy = NoStrategy
    /\ \E kind \in StrategyKinds : strategy' = NewStrategy(kind)
    /\ UNCHANGED signal
    /\ StrategyOnly

StrategyEvaluate ==
    /\ strategy # NoStrategy
    /\ \E current_price \in StrategyTicks, indicator \in {"BUY", "SELL", "NONE"},
          ranged \in BOOLEAN :
           generate_signal(current_price, indicator, ranged)
    /\ StrategyOnly

\* the caller acting on an entry signal: it sizes the signal and opens the position
StrategyOpen ==
    /\ strategy # NoStrategy
    /\ strategy.trades_today < MaxOpens
    /\ signal # << >> /\ signal[1].signal_type \in {"BUY", "SELL"}
    /\ open_position([signal[1] EXCEPT !.quantity = QtyUnit])
    /\ UNCHANGED signal
    /\ StrategyOnly

StrategyClose ==
    /\ strategy # NoStrategy
    /\ \E exit_price \in StrategyTicks : close_position(exit_price)
    /\ UNCHANGED signal
    /\ StrategyOnly

NextStrategy ==
    \/ StrategyNew
    \/ StrategyEvaluate
    \/ StrategyOpen
    \/ StrategyClose

SpecStrategy == Init /\ [][NextStrategy]_vars

\* ---- the candle builder: ticks into OHLC candles, one per interval
\* A timestamp is the minute of the day it falls in; seconds play no part in
\* the bucket a tick belongs to.
INTERVALS ==
    ("1min" :> 1) @@ ("3min" :> 3) @@ ("5min" :> 5) @@ ("10min" :> 10) @@ ("15min" :> 15)
    @@ ("30min" :> 30) @@ ("60min" :> 60)

\* INTERVALS.keys(), in the order the dict gives them
IntervalKeys == <<"1min", "3min", "5min", "10min", "15min", "30min", "60min">>

max_history == 500

Tokens == {256265}
\* 09:15 to 09:18
TickTimes == {555, 556, 557, 558}
TickPrices == {0, 2500, 2510}
TickVolumes == {10}

Max(a, b) == IF a > b THEN a ELSE b

\* Candle.__init__
Candle(timestamp, interval) ==
    [timestamp |-> timestamp, interval |-> interval, open |-> None, high |-> None,
     low |-> None, close |-> None, volume |-> 0, tick_count |-> 0, is_closed |-> FALSE]

\* Candle.update leaving the close of a candle at its first price
update_CloseKept(candle, price, volume) ==
    [candle EXCEPT !.open = IF candle.open = None THEN price ELSE @,
                   !.high = IF candle.open = None THEN price ELSE Max(@, price),
                   !.low = IF candle.open = None THEN price ELSE Min(@, price),
                   !.close = IF candle.open = None THEN price ELSE @,
                   !.volume = @ + volume,
                   !.tick_count = @ + 1]

\* Candle.update
update(candle, price, volume) ==
    [candle EXCEPT !.open = IF candle.open = None THEN price ELSE @,
                   !.high = IF candle.open = None THEN price ELSE Max(@, price),
                   !.low = IF candle.open = None THEN price ELSE Min(@, price),
                   !.close = price,
                   !.volume = @ + volume,
                   !.tick_count = @ + 1]

\* timestamp.replace(minute=(timestamp.minute // minutes) * minutes, second=0)
_get_candle_start(timestamp, interval) ==
    LET minutes == INTERVALS[interval]
        minute == ((timestamp % 60) \div minutes) * minutes
    IN  (timestamp \div 60) * 60 + minute

\* historical_candles is a defaultdict of lists
HistoryOf(historical, key) == IF key \in DOMAIN historical THEN historical[key] ELSE << >>

\* the list never cut back
Trimmed_Unbounded(history) == history

\* the list cut back to its last max_history candles
Trimmed(history) ==
    IF Len(history) > max_history
    THEN SubSeq(history, Len(history) - max_history + 1, Len(history)) ELSE history

\* _update_candle on the builder b = [current, historical, fired]
_update_candle(b, instrument_token, interval, timestamp, price, volume) ==
    LET candle_start == _get_candle_start(timestamp, interval)
        key == <<instrument_token, interval>>
    IN  IF key \notin DOMAIN b.current
        THEN [b EXCEPT !.current = (key :> update(Candle(candle_start, interval), price, volume))
                                   @@ @]
        ELSE IF b.current[key].timestamp # candle_start
        THEN LET candle == [b.current[key] EXCEPT !.is_closed = TRUE]
             IN  [current |-> [b.current EXCEPT
                                  ![key] = update(Candle(candle_start, interval), price, volume)],
                  historical |-> (key :> Trimmed(Append(HistoryOf(b.historical, key), candle)))
                                 @@ b.historical,
                  fired |-> Append(b.fired, [interval |-> interval,
                                             instrument_token |-> instrument_token,
                                             candle |-> candle])]
        ELSE [b EXCEPT !.current[key] = update(@, price, volume)]

\* the loop of process_tick over the intervals from number i on
RECURSIVE UpdateFrom(_, _, _)
UpdateFrom(b, i, t) ==
    IF i > Len(IntervalKeys) THEN b
    ELSE UpdateFrom(_update_candle(b, t.instrument_token, IntervalKeys[i], t.timestamp,
                                   t.last_price, t.volume_traded),
                    i + 1, t)

process_tick(t) ==
    IF t.instrument_token = 0 \/ t.last_price = 0
    THEN UNCHANGED <<current_candles, historical_candles, fired>>
    ELSE LET b == UpdateFrom([current |-> current_candles, historical |-> historical_candles,
                              fired |-> fired], 1, t)
         IN  /\ current_candles' = b.current
             /\ historical_candles' = b.historical
             /\ fired' = b.fired

\* process_tick called with one tick drawn from the given times and prices
TickIn(times, prices) ==
    /\ Len(ticked) < MaxTicks
    /\ \E instrument_token \in Tokens, timestamp \in times, last_price \in prices,
          volume_traded \in TickVolumes :
           LET t == [instrument_token |-> instrument_token, timestamp |-> timestamp,
                     last_price |-> last_price, volume_traded |-> volume_traded]
           IN  process_tick(t) /\ ticked' = Append(ticked, t)
    /\ UNCHANGED <<engine, db, ghosts, PAPER_TRADING_MODE, ticking, botting, signalling,
                   aside, lock, feeder>>

CandleTick == TickIn(TickTimes, TickPrices)

NextCandle == CandleTick

SpecCandle == Init /\ [][NextCandle]_vars

\* ---- ticks arriving in timestamp order, across the 10:00 boundary
\* 09:58 to 10:01
OrderedTimes == {598, 599, 600, 601}
OrderedPrices == {0, 2500, 2510}

OrderedTick ==
    TickIn({timestamp \in OrderedTimes :
               ticked = << >> \/ timestamp >= ticked[Len(ticked)].timestamp},
           OrderedPrices)

NextOrdered == OrderedTick

SpecOrdered == Init /\ [][NextOrdered]_vars

\* ---- one tick a minute from 09:15 on, each closing the 1min candle before it
RunStart == 555
RunPrices == {2500}

RingTick ==
    /\ Len(ticked) < MaxRun
    /\ \E instrument_token \in Tokens, last_price \in RunPrices, volume_traded \in TickVolumes :
           LET t == [instrument_token |-> instrument_token,
                     timestamp |-> RunStart + Len(ticked),
                     last_price |-> last_price, volume_traded |-> volume_traded]
           IN  process_tick(t) /\ ticked' = Append(ticked, t)
    /\ UNCHANGED <<engine, db, ghosts, PAPER_TRADING_MODE, ticking, botting, signalling,
                   aside, lock, feeder>>

NextRing == RingTick

SpecRing == Init /\ [][NextRing]_vars

\* ---- process_tick step by step: the lock, the loop over the intervals, and
\* the close handlers _update_candle calls on the way
HandlerKinds == {"plain", "get_current_candle", "get_historical_candles"}

BuilderOnly ==
    UNCHANGED <<engine, db, ghosts, PAPER_TRADING_MODE, ticking, botting, signalling, aside>>

\* process_tick up to "with self.lock": a tick without token or price returns
\* before it, any other tick waits for the lock and takes it
HandlerEnter ==
    /\ feeder.pc = "idle"
    /\ Len(ticked) < MaxTicks
    /\ \E instrument_token \in Tokens, timestamp \in TickTimes, last_price \in TickPrices,
          volume_traded \in TickVolumes :
           LET t == [instrument_token |-> instrument_token, timestamp |-> timestamp,
                     last_price |-> last_price, volume_traded |-> volume_traded]
           IN  /\ ticked' = Append(ticked, t)
               /\ IF t.instrument_token = 0 \/ t.last_price = 0
                  THEN UNCHANGED <<lock, feeder>>
                  ELSE /\ lock = "free"
                       /\ lock' = "tick"
                       /\ feeder' = [pc |-> "locked", tick |-> t, i |-> 1]
    /\ UNCHANGED <<current_candles, historical_candles, fired>>
    /\ BuilderOnly

\* one pass of the loop over the intervals: _update_candle up to its call of
\* _trigger_callbacks if it closes a candle, to its end if it does not
HandlerUpdate ==
    /\ feeder.pc = "locked"
    /\ IF feeder.i > Len(IntervalKeys)
       THEN /\ feeder' = [feeder EXCEPT !.pc = "unlock"]
            /\ UNCHANGED <<current_candles, historical_candles, fired>>
       ELSE LET t == feeder.tick
                b == _update_candle([current |-> current_candles,
                                     historical |-> historical_candles, fired |-> fired],
                                    t.instrument_token, IntervalKeys[feeder.i], t.timestamp,
                                    t.last_price, t.volume_traded)
            IN  /\ current_candles' = b.current
                /\ historical_candles' = b.historical
                /\ fired' = b.fired
                /\ feeder' = IF Len(b.fired) > Len(fired)
                              THEN [feeder EXCEPT !.pc = "callback"]
                              ELSE [feeder EXCEPT !.i = @ + 1]
    /\ UNCHANGED <<ticked, lock>>
    /\ BuilderOnly

\* the handler registered for the interval runs on the tick thread: a plain
\* one returns, one that calls get_current_candle or get_historical_candles
\* waits for the lock, which is not reentrant
HandlerCall ==
    /\ feeder.pc = "callback"
    /\ \E handler \in HandlerKinds :
           feeder' = IF handler = "plain" \/ lock = "free"
                     THEN [feeder EXCEPT !.pc = "locked", !.i = @ + 1]
                     ELSE [feeder EXCEPT !.pc = "blocked"]
    /\ UNCHANGED <<current_candles, historical_candles, fired, ticked, lock>>
    /\ BuilderOnly

\* the end of the with block
HandlerExit ==
    /\ feeder.pc = "unlock"
    /\ lock' = "free"
    /\ feeder' = Idle
    /\ UNCHANGED <<current_candles, historical_candles, fired, ticked>>
    /\ BuilderOnly

NextHandler ==
    \/ HandlerEnter
    \/ HandlerUpdate
    \/ HandlerCall
    \/ HandlerExit

SpecHandler == Init /\ [][NextHandler]_vars

\* ---- the Renko brick calculator
\* Renko prices and brick sizes are in tenths of a rupee.
RenkoSymbols == {"RELIANCE"}
BrickSizes == {10, 20}
InitialPrices == {None, 1000}
RenkoPrices == {960, 990, 998, 1005, 1010, 1012, 1025, 1050}

\* RenkoBrick(brick_size=brick_size)
RenkoBrick(brick_size) ==
    [brick_size |-> brick_size, upper_limit |-> None, lower_limit |-> None,
     brick_count |-> 0, last_price |-> 0]

\* "if initial_price:" takes None and 0 alike
initialize_brick(symbol, brick_size, initial_price) ==
    /\ renko_lock = "free"
    /\ renko_state' =
           (symbol :> IF initial_price # None /\ initial_price # 0
                      THEN [RenkoBrick(brick_size) EXCEPT
                               !.upper_limit = initial_price + brick_size,
                               !.lower_limit = initial_price - brick_size,
                               !.last_price = initial_price]
                      ELSE RenkoBrick(brick_size))
           @@ renko_state
    /\ fed' = (symbol :> [initial_price |-> initial_price, prices |-> << >>]) @@ fed
    /\ UNCHANGED <<renko_lock, renko_result>>

\* the price counting as a break of the upper limit when it only touches it
BreaksUp_Touch(brick, price) == price >= brick.upper_limit

BreaksUp(brick, price) == price > brick.upper_limit

BreaksDown(brick, price) == price < brick.lower_limit

\* every price move taken to form a single brick
Gap_None(distance, brick_size) == 0

\* distance // brick_size: the whole bricks beyond the one the break forms
Gap(distance, brick_size) == distance \div brick_size

\* the brick after a price, for a brick whose limits are set
Bricked(brick, price) ==
    IF BreaksUp(brick, price)
    THEN LET gap == Gap(price - brick.upper_limit, brick.brick_size)
             bricks_formed == 1 + gap
         IN  [brick EXCEPT
                 !.last_price = price,
                 !.lower_limit = brick.upper_limit + (gap * brick.brick_size)
                                 - brick.brick_size,
                 !.upper_limit = brick.upper_limit + (bricks_formed * brick.brick_size),
                 !.brick_count = Max(1, brick.brick_count + bricks_formed)]
    ELSE IF BreaksDown(brick, price)
    THEN LET gap == Gap(brick.lower_limit - price, brick.brick_size)
             bricks_formed == 1 + gap
         IN  [brick EXCEPT
                 !.last_price = price,
                 !.upper_limit = brick.lower_limit - (gap * brick.brick_size)
                                 + brick.brick_size,
                 !.lower_limit = brick.lower_limit - (bricks_formed * brick.brick_size),
                 !.brick_count = Min(-1, brick.brick_count - bricks_formed)]
    ELSE [brick EXCEPT !.last_price = price]

\* update_brick: for a symbol without state it calls initialize_brick with the
\* lock held, which waits for that same lock; else it sets the limits of a
\* brick that has none, or moves them by the bricks the price forms
update_brick(symbol, price) ==
    /\ renko_lock = "free"
    /\ IF symbol \notin DOMAIN renko_state
       THEN /\ renko_lock' = "held"
            /\ renko_result' = <<[symbol |-> symbol, blocked |-> TRUE]>>
            /\ UNCHANGED <<renko_state, fed>>
       ELSE LET brick == renko_state[symbol]
            IN  /\ fed' = [fed EXCEPT ![symbol].prices = Append(@, price)]
                /\ UNCHANGED renko_lock
                /\ IF brick.upper_limit = None
                   THEN /\ renko_state' = [renko_state EXCEPT ![symbol] =
                                              [brick EXCEPT !.last_price = price,
                                                            !.upper_limit = price + brick.brick_size,
                                                            !.lower_limit = price - brick.brick_size]]
                        /\ renko_result' = <<[symbol |-> symbol, blocked |-> FALSE,
                                               brick_formed |-> FALSE, brick_count |-> 0]>>
                   ELSE LET after == Bricked(brick, price)
                        IN  /\ renko_state' = [renko_state EXCEPT ![symbol] = after]
                            /\ renko_result' =
                                   <<[symbol |-> symbol, blocked |-> FALSE,
                                      brick_formed |-> BreaksUp(brick, price)
                                                       \/ BreaksDown(brick, price),
                                      brick_count |-> after.brick_count,
                                      brick_change |-> after.brick_count - brick.brick_count,
                                      upper_limit |-> after.upper_limit,
                                      lower_limit |-> after.lower_limit,
                                      price |-> price]>>

RenkoOnly ==
    UNCHANGED <<engine, db, ghosts, PAPER_TRADING_MODE, ticking, botting, signalling, candling,
                hubbing, fetch, apart>>

RenkoInit ==
    /\ \E symbol \in RenkoSymbols, brick_size \in BrickSizes, initial_price \in InitialPrices :
           initialize_brick(symbol, brick_size, initial_price)
    /\ RenkoOnly

RenkoUpdate ==
    /\ \E symbol \in RenkoSymbols, price \in RenkoPrices :
           /\ symbol \in DOMAIN fed => Len(fed[symbol].prices) < MaxBricks
           /\ update_brick(symbol, price)
    /\ RenkoOnly

NextRenko ==
    \/ RenkoInit
    \/ RenkoUpdate

SpecRenko == Init /\ [][NextRenko]_vars

\* ---- the WebSocket hub: connect, subscribe, and the upstream's notifications
max_reconnect_attempts == 10
HubTokens == {256265, 408065}
TokenLists == SUBSET HubTokens \ {{}}

\* the retry test with the bound taken away
CanRetry_Always(h) == TRUE

\* self.auto_reconnect and self.reconnect_attempts < self.max_reconnect_attempts;
\* auto_reconnect is True from __init__ on
CanRetry(h) == h.reconnect_attempts < max_reconnect_attempts

\* connect() on the handler h: initialize() first if there is no ticker, which
\* raises when nobody is logged in; then nothing if connected, else a thread
\* that runs ticker.connect
Connect(h, authenticated) ==
    IF ~h.ticker /\ ~authenticated
    THEN [hub |-> h, raised |-> TRUE, started |-> FALSE]
    ELSE [hub |-> [h EXCEPT !.ticker = TRUE], raised |-> FALSE, started |-> ~h.is_connected]

\* _attempt_reconnect: count the attempt, sleep, connect; a connect that raises
\* is followed by the next attempt while the count is below the bound
RECURSIVE _attempt_reconnect(_, _)
_attempt_reconnect(h, authenticated) ==
    LET counted == [h EXCEPT !.reconnect_attempts = @ + 1]
        c == Connect(counted, authenticated)
    IN  IF c.raised
        THEN IF CanRetry(counted) THEN _attempt_reconnect(counted, authenticated)
             ELSE [hub |-> counted, started |-> FALSE]
        ELSE [hub |-> c.hub, started |-> c.started]

HubOnly ==
    UNCHANGED <<engine, db, ghosts, PAPER_TRADING_MODE, ticking, botting, signalling, candling,
                renkoing, fetch, apart>>

connect(authenticated) ==
    LET c == Connect(hub, authenticated)
    IN  /\ hub' = c.hub
        /\ link' = IF c.started /\ link = "down" THEN "connecting" ELSE link
        /\ UNCHANGED <<subscribed, requested>>

disconnect ==
    /\ IF hub.ticker /\ hub.is_connected
       THEN hub' = [hub EXCEPT !.is_connected = FALSE] /\ link' = "closing"
       ELSE UNCHANGED <<hub, link>>
    /\ UNCHANGED <<subscribed, requested>>

\* subscribe: not connected, the tokens are kept for later; connected, they
\* are subscribed upstream and kept
subscribe(tokens) ==
    /\ hub' = [hub EXCEPT !.subscribed_tokens = @ \cup tokens]
    /\ subscribed' = IF ~hub.ticker \/ ~hub.is_connected THEN subscribed
                      ELSE subscribed \cup tokens
    /\ requested' = [tokens |-> requested.tokens \cup tokens, op |-> "subscribe",
                      of |-> tokens]
    /\ UNCHANGED link

\* unsubscribe: not connected, it returns; connected, the tokens are
\* unsubscribed upstream and dropped
unsubscribe(tokens) ==
    /\ IF ~hub.ticker \/ ~hub.is_connected
       THEN UNCHANGED <<hub, subscribed>>
       ELSE /\ hub' = [hub EXCEPT !.subscribed_tokens = @ \ tokens]
            /\ subscribed' = subscribed \ tokens
    /\ requested' = [tokens |-> requested.tokens \ tokens, op |-> "unsubscribe",
                      of |-> tokens]
    /\ UNCHANGED link

\* _on_connect, resubscribe included: the new connection carries no
\* subscription until resubscribe sends the tokens kept
_on_connect ==
    /\ link = "connecting"
    /\ link' = "up"
    /\ hub' = [hub EXCEPT !.is_connected = TRUE, !.reconnect_attempts = 0]
    /\ subscribed' = hub.subscribed_tokens
    /\ UNCHANGED requested

\* _on_close: the connection, or the attempt to make one, has ended
_on_close(authenticated) ==
    /\ link \in {"connecting", "up", "closing"}
    /\ LET closed_hub == [hub EXCEPT !.is_connected = FALSE]
           r == IF CanRetry(closed_hub) THEN _attempt_reconnect(closed_hub, authenticated)
                ELSE [hub |-> closed_hub, started |-> FALSE]
       IN  /\ hub' = r.hub
           /\ link' = IF r.started THEN "connecting" ELSE "down"
    /\ subscribed' = {}
    /\ UNCHANGED requested

HubConnect == (\E authenticated \in BOOLEAN : connect(authenticated)) /\ HubOnly
HubDisconnect == disconnect /\ HubOnly
HubSubscribe == (\E tokens \in TokenLists : subscribe(tokens)) /\ HubOnly
HubUnsubscribe == (\E tokens \in TokenLists : unsubscribe(tokens)) /\ HubOnly
HubOnConnect == _on_connect /\ HubOnly
HubOnClose == (\E authenticated \in BOOLEAN : _on_close(authenticated)) /\ HubOnly

NextHub ==
    \/ HubConnect
    \/ HubDisconnect
    \/ HubSubscribe
    \/ HubUnsubscribe
    \/ HubOnConnect
    \/ HubOnClose

SpecHub == Init /\ [][NextHub]_vars

\* ---- the tick processor: it registers its handler with the hub, and the hub
\* hands every upstream tick to every handler registered
InstrumentTokens == ("RELIANCE" :> 738561)
StartLists == {<<"RELIANCE">>, <<"NOSUCH">>}
ProcessorTimes == {555, 556}
ProcessorPrices == {2500, 2510}

\* market_data_service.get_instrument_token, 0 for None
get_instrument_token(symbol) ==
    IF symbol \in DOMAIN InstrumentTokens THEN InstrumentTokens[symbol] ELSE 0

\* TickProcessor.start: the tokens looked up, the handler registered, connect,
\* two seconds of sleep in which the upstream answers or not, then subscribe;
\* what connect raises leaves start after the registration
ProcessorStart(symbols, authenticated, in_time) ==
    LET found == {i \in DOMAIN symbols : get_instrument_token(symbols[i]) # 0}
        tokens == {get_instrument_token(symbols[i]) : i \in found}
        meta == [token \in tokens \cup DOMAIN processor.token_meta |->
                    IF token \in tokens
                    THEN [symbol |-> symbols[CHOOSE i \in found :
                                                get_instrument_token(symbols[i]) = token],
                          exchange |-> "NSE"]
                    ELSE processor.token_meta[token]]
        registered == [hub EXCEPT !.tick_callbacks = Append(@, "_process_ticks")]
        c == Connect(registered, authenticated)
        started == IF c.started /\ link = "down" THEN "connecting" ELSE link
        answered == in_time /\ started = "connecting"
        connected == IF answered
                     THEN [c.hub EXCEPT !.is_connected = TRUE, !.reconnect_attempts = 0]
                     ELSE c.hub
        upstream == IF answered THEN c.hub.subscribed_tokens ELSE subscribed
    IN  IF processor.is_running
        THEN UNCHANGED <<hubbing, processor>>
        ELSE IF tokens = {}
        THEN UNCHANGED <<hubbing, processor>>
        ELSE IF c.raised
        THEN /\ hub' = registered
             /\ processor' = [processor EXCEPT !.token_meta = meta]
             /\ UNCHANGED <<link, subscribed, requested>>
        ELSE /\ hub' = [connected EXCEPT !.subscribed_tokens = @ \cup tokens]
             /\ link' = IF answered THEN "up" ELSE started
             /\ subscribed' = IF connected.is_connected THEN upstream \cup tokens ELSE upstream
             /\ requested' = [tokens |-> requested.tokens \cup tokens, op |-> "subscribe",
                               of |-> tokens]
             /\ processor' = [is_running |-> TRUE, token_meta |-> meta]

\* TickProcessor.stop
ProcessorStop ==
    IF ~processor.is_running
    THEN UNCHANGED <<hubbing, processor>>
    ELSE /\ disconnect
         /\ processor' = [processor EXCEPT !.is_running = FALSE]

\* process_tick called times times with the tick t
RECURSIVE Processed(_, _, _)
Processed(b, t, times) ==
    IF times = 0 THEN b ELSE Processed(UpdateFrom(b, 1, t), t, times - 1)

\* _on_ticks with one tick of a subscribed token: every registered handler is
\* called with it, and _process_ticks gives it to the candle builder and its
\* price to the paper engine.  The engine holds no position here, so a second
\* update_ltp with the same price writes what the first wrote.
_on_ticks(t) ==
    LET calls == Len(hub.tick_callbacks)
        known == t.instrument_token \in DOMAIN processor.token_meta
        b == Processed([current |-> current_candles, historical |-> historical_candles,
                        fired |-> fired], t, calls)
    IN  /\ link = "up"
        /\ t.instrument_token \in subscribed
        /\ current_candles' = b.current
        /\ historical_candles' = b.historical
        /\ fired' = b.fired
        /\ ticked' = Append(ticked, t)
        /\ IF calls > 0 /\ known
           THEN update_ltp(processor.token_meta[t.instrument_token].symbol,
                           processor.token_meta[t.instrument_token].exchange,
                           Rs(t.last_price))
           ELSE UNCHANGED <<engine, db, ghosts>>
        /\ delivered' = <<[tick |-> t, process_tick |-> calls,
                           update_ltp |-> IF known THEN calls ELSE 0]>>

ProcessorOnly ==
    UNCHANGED <<PAPER_TRADING_MODE, ticking, botting, signalling, renkoing, fetch, market>>

TickStart ==
    /\ \E symbols \in StartLists, authenticated \in BOOLEAN, in_time \in BOOLEAN :
           /\ Len(hub.tick_callbacks) < MaxStarts
           /\ ProcessorStart(symbols, authenticated, in_time)
    /\ UNCHANGED <<engine, db, ghosts, candling, delivered>>
    /\ ProcessorOnly

TickStop ==
    /\ ProcessorStop
    /\ UNCHANGED <<engine, db, ghosts, candling, delivered>>
    /\ ProcessorOnly

UpstreamTick ==
    /\ Len(ticked) < MaxTicks
    /\ \E instrument_token \in DOMAIN processor.token_meta, timestamp \in ProcessorTimes,
          last_price \in ProcessorPrices, volume_traded \in TickVolumes :
           _on_ticks([instrument_token |-> instrument_token, timestamp |-> timestamp,
                      last_price |-> last_price, volume_traded |-> volume_traded])
    /\ UNCHANGED <<hubbing, processor, lock, feeder>>
    /\ ProcessorOnly

NextProcessor ==
    \/ TickStart
    \/ TickStop
    \/ UpstreamTick
    \/ HubOnConnect
    \/ HubOnClose

SpecProcessor == Init /\ [][NextProcessor]_vars

\* ---- the market data service: historical candles fetched in chunks
\* A date is the number of days from 2024-01-01 to it.
MonthDays == <<31, 29, 31, 30, 31, 30, 31, 31, 30, 31, 30, 31>>

RECURSIVE DaysBefore(_)
DaysBefore(month) == IF month = 1 THEN 0 ELSE DaysBefore(month - 1) + MonthDays[month - 1]

\* datetime(2024, month, day)
Date(month, day) == DaysBefore(month) + (day - 1)

FromDates == {Date(1, 1), Date(1, 16), Date(2, 1)}
ToDates == {Date(2, 29), Date(3, 1), Date(3, 2), Date(5, 1), Date(5, 15), Date(7, 1), Date(9, 7)}
FetchIntervals == {"5minute", "15minute", "hour"}
\* which upstream request raises, 0 for none
Failings == 0..3
\* the dates the upstream holds a candle for
LastDay == 260
CandleDates == {date \in 0..LastDay : date % 5 = 0}

\* every interval given 100 days
limits_Hundred(interval) == 100

\* limits.get(interval, 30)
limits(interval) ==
    CASE interval \in {"minute", "3minute", "5minute"} -> 60
      [] interval \in {"15minute", "30minute"} -> 100
      [] interval = "60minute" -> 200
      [] interval = "day" -> 2000
      [] OTHER -> 30

\* the while loop of get_historical_data: the windows it asks for from
\* curr_from on
RECURSIVE ChunkWalk(_, _, _)
ChunkWalk(curr_from, to_date, limit_days) ==
    IF curr_from < to_date
    THEN LET curr_to == Min(curr_from + limit_days, to_date)
         IN  <<[from_date |-> curr_from, to_date |-> curr_to]>>
             \o (IF curr_to >= to_date THEN << >> ELSE ChunkWalk(curr_to, to_date, limit_days))
    ELSE << >>

\* the dates of a set in ascending order
RECURSIVE Ascending(_)
Ascending(dates) ==
    IF dates = {} THEN << >>
    ELSE LET first == CHOOSE date \in dates : \A other \in dates : date <= other
         IN  <<first>> \o Ascending(dates \ {first})

\* kite.historical_data for request number n: the candles dated within the
\* window, both ends included, oldest first
historical_data(n, window) ==
    LET dates == Ascending({date \in CandleDates :
                               window.from_date <= date /\ date <= window.to_date})
    IN  [i \in DOMAIN dates |-> [date |-> dates[i], request |-> n]]

\* pd.concat of the chunks of requests n onward
RECURSIVE Concat(_, _)
Concat(windows, n) ==
    IF n > Len(windows) THEN << >>
    ELSE historical_data(n, windows[n]) \o Concat(windows, n + 1)

\* every row kept, duplicates of a date included
Deduplicated_None(rows) == rows

\* df[~df.index.duplicated(keep='first')]
Deduplicated(rows) ==
    LET First(i) == \A j \in 1..(i - 1) : rows[j].date # rows[i].date
        RECURSIVE Keep(_)
        Keep(i) == IF i > Len(rows) THEN << >>
                   ELSE (IF First(i) THEN <<rows[i]>> ELSE << >>) \o Keep(i + 1)
    IN  Keep(1)

\* df.sort_index(): by date, rows of one date in their order
RECURSIVE SortIndex(_)
SortIndex(rows) ==
    IF rows = << >> THEN << >>
    ELSE LET least == CHOOSE i \in DOMAIN rows :
                          /\ \A j \in DOMAIN rows : rows[i].date <= rows[j].date
                          /\ \A j \in 1..(i - 1) : rows[j].date # rows[i].date
         IN  <<rows[least]>>
             \o SortIndex(SubSeq(rows, 1, least - 1) \o SubSeq(rows, least + 1, Len(rows)))

\* get_historical_data: what it asked the upstream for, whether it raised, and
\* the rows it returned
get_historical_data(instrument_token, from_date, to_date, interval, failing) ==
    LET limit_days == limits(interval)
        total_days == to_date - from_date
        windows == IF total_days <= limit_days
                   THEN <<[from_date |-> from_date, to_date |-> to_date]>>
                   ELSE ChunkWalk(from_date, to_date, limit_days)
        raised == failing \in DOMAIN windows
        asked == IF raised THEN SubSeq(windows, 1, failing) ELSE windows
    IN  [instrument_token |-> instrument_token, from_date |-> from_date, to_date |-> to_date,
         interval |-> interval, failing |-> failing, windows |-> asked, raised |-> raised,
         rows |-> IF raised THEN << >>
                  ELSE IF total_days <= limit_days THEN historical_data(1, windows[1])
                  ELSE SortIndex(Deduplicated(Concat(windows, 1)))]

FetchHistory ==
    /\ \E instrument_token \in Tokens, from_date \in FromDates, to_date \in ToDates,
          interval \in FetchIntervals, failing \in Failings :
           fetch' = <<get_historical_data(instrument_token, from_date, to_date, interval,
                                          failing)>>
    /\ UNCHANGED <<engine, db, ghosts, PAPER_TRADING_MODE, ticking, botting, signalling,
                   candling, renkoing, hubbing, apart>>

NextFetch == FetchHistory

SpecFetch == Init /\ [][NextFetch]_vars

\* ---- the market clock: status of the exchange at an instant
\* An instant is a date of 2025 and the second of the day, market-local.
HOLIDAYS_2025 ==
    { <<1, 26>>, <<2, 26>>, <<3, 14>>, <<3, 31>>, <<4, 10>>, <<4, 14>>, <<4, 18>>, <<5, 1>>,
      <<6, 7>>, <<8, 15>>, <<8, 27>>, <<10, 2>>, <<10, 21>>, <<10, 30>>, <<11, 5>>,
      <<11, 24>>, <<12, 25>> }

\* time(hour, minute)
time(hour, minute) == (hour * 60 + minute) * 60

PRE_OPEN_START == time(9, 0)
PRE_OPEN_END == time(9, 15)
MARKET_OPEN == time(9, 15)
MARKET_CLOSE == time(15, 30)
POST_CLOSE == time(16, 0)

\* datetime.weekday() of a date of 2025, Monday 0: the year is not a leap
\* year and its first day is a Wednesday
weekday(month, day) ==
    LET before == DaysBefore(month) - (IF month > 2 THEN 1 ELSE 0)
    IN  (2 + before + (day - 1)) % 7

ClockDates ==
    { <<1, 3>>, <<1, 4>>, <<1, 5>>, <<1, 6>>, <<1, 26>>, <<5, 1>>, <<6, 7>>, <<12, 25>>,
      <<12, 26>> }
ClockSeconds ==
    { 0, PRE_OPEN_START - 1, PRE_OPEN_START, PRE_OPEN_START + 1,
      MARKET_OPEN - 1, MARKET_OPEN, MARKET_OPEN + 1,
      MARKET_CLOSE - 1, MARKET_CLOSE, MARKET_CLOSE + 1,
      POST_CLOSE - 1, POST_CLOSE, POST_CLOSE + 1, time(23, 59) + 59 }

is_market_holiday(date) ==
    IF weekday(date[1], date[2]) >= 5 THEN TRUE ELSE date \in HOLIDAYS_2025

get_market_status(now) ==
    LET current_time == now.second
    IN  IF is_market_holiday(now.date) THEN [status |-> "CLOSED", session |-> "HOLIDAY"]
        ELSE IF weekday(now.date[1], now.date[2]) >= 5
        THEN [status |-> "CLOSED", session |-> "WEEKEND"]
        ELSE IF PRE_OPEN_START <= current_time /\ current_time < PRE_OPEN_END
        THEN [status |-> "PRE-OPEN", session |-> "PRE-MARKET"]
        ELSE IF MARKET_OPEN <= current_time /\ current_time < MARKET_CLOSE
        THEN [status |-> "OPEN", session |-> "REGULAR"]
        ELSE IF MARKET_CLOSE <= current_time /\ current_time < POST_CLOSE
        THEN [status |-> "CLOSED", session |-> "POST-MARKET"]
        ELSE [status |-> "CLOSED", session |-> "AFTER-HOURS"]

should_stream_data(now) == get_market_status(now).status \in {"OPEN", "PRE-OPEN"}

\* the clock read once, get_market_status and should_stream_data asked at that reading
MarketStatus ==
    /\ \E date \in ClockDates, second \in ClockSeconds :
           LET now == [date |-> date, second |-> second]
           IN  market' = <<[now |-> now,
                            got |-> get_market_status(now),
                            should_stream_data |-> should_stream_data(now)]>>
    /\ UNCHANGED <<engine, db, ghosts, PAPER_TRADING_MODE, ticking, botting, signalling,
                   candling, renkoing, hubbing, fetch, processor, delivered>>

NextMarket == MarketStatus

SpecMarket == Init /\ [][NextMarket]_vars

\* ---- every operation
PlaceMarket == PlaceMarketIn(MaxOrders, {"RELIANCE"}, Sides, {QtyUnit}, {None}, {NoTag}, {})
PlaceLimit == PlaceLimitIn({"RELIANCE"}, {"SELL"})
Allocate == AllocateIn({Rs(60000)})
Reclaim == ReclaimNow
UpdateLtp == UpdateLtpIn({"RELIANCE"}, {Rs(2500)})

Next ==
    \/ PlaceMarket
    \/ PlaceLimit
    \/ CancelAny
    \/ ModifyAny
    \/ Allocate
    \/ Reclaim
    \/ UpdateLtp
    \/ Restart

Spec == Init /\ [][Next]_vars

\* ================================================================= claims
Bucketed == available_funds + reserved_funds + invested_funds

LastOrder == orders[Len(orders)]

C2_LongRoundTrip ==
    (closed # << >> /\ closed[1].by = "SELL" /\ closed[1].long)
        => /\ closed[1].real = closed[1].sell_value - closed[1].buy_value
           /\ closed[1].rel = closed[1].buy_value

\* C3: the BUY 10 / LTP 2510 / SELL 10 round trip of RELIANCE from the fresh
\* engine with LTP 2500 cached gives the stated funds, position and P&L.
C3_RoundTrip ==
    LET key == <<"RELIANCE", "NSE", "MIS">>
    IN  /\ script = 2 =>
              /\ available_funds = Rs(75000)
              /\ invested_funds = Rs(25000)
              /\ key \in DOMAIN positions
              /\ positions[key].quantity = 10
              /\ positions[key].average_price = Rs(2500)
              /\ Len(trades) = 1
        /\ script = 3 =>
              /\ key \in DOMAIN positions
              /\ positions[key].unrealised_pnl = Rs(100)
        /\ script = 4 =>
              /\ available_funds = Rs(100100)
              /\ invested_funds = 0
              /\ key \notin DOMAIN positions
              /\ realized_pnl = Rs(100)
              /\ daily_pnl = Rs(100)
              /\ Len(trades) = 2

\* C4: every order has filled + pending + cancelled = quantity, and a COMPLETE
\* order is filled in full at a known average price.
C4_OrderQuantities ==
    \A i \in DOMAIN orders :
        /\ orders[i].filled_quantity + orders[i].pending_quantity
              + orders[i].cancelled_quantity = orders[i].quantity
        /\ orders[i].status = "COMPLETE" =>
              /\ orders[i].filled_quantity = orders[i].quantity
              /\ orders[i].average_price # None

\* C5: a filled BUY of value T tagged BOT_... takes min(reserved, T) from the
\* reserve, when there is one, and the rest from available funds; any other
\* filled BUY takes T from available funds; both add T to invested_funds.
C5_BuyDebits ==
    [][ /\ BuyFunds(Rs(4000), Rs(6000), Rs(2500), TRUE)
            = [reserved |-> Rs(3500), available |-> Rs(4000)]
        /\ (Len(orders') = Len(orders) + 1
            /\ orders'[Len(orders')].status = "COMPLETE"
            /\ orders'[Len(orders')].transaction_type = "BUY")
           => LET o == orders'[Len(orders')]
                  T == o.quantity * o.average_price
                  fromReserve == IF reserved_funds < T THEN reserved_funds ELSE T
              IN  /\ invested_funds' = invested_funds + T
                  /\ IF StartsWithBOT(o.tag) /\ reserved_funds > 0
                     THEN /\ reserved_funds' = reserved_funds - fromReserve
                          /\ available_funds' = available_funds - (T - fromReserve)
                     ELSE /\ reserved_funds' = reserved_funds
                          /\ available_funds' = available_funds - T ]_vars

C5_Witness ==
    /\ orders # << >>
    /\ LastOrder.status = "COMPLETE"
    /\ LastOrder.transaction_type = "BUY"
    /\ StartsWithBOT(LastOrder.tag)
    /\ reserved_funds > 0
    /\ invested_funds > 0

\* C6 (as stated): allocate_funds(X) directly followed by
\* reclaim_reserved_funds() leaves available and reserved funds as they were
\* before the allocate call.
C6_AsStated ==
    (allocSnap # << >> /\ allocSnap[3] = "reclaimed")
        => /\ available_funds = allocSnap[1]
           /\ reserved_funds = allocSnap[2]

\* C6 (amended): allocate_funds(X), 0 <= X <= available, directly followed by
\* reclaim_reserved_funds() leaves reserved = 0 and available = the sum of the
\* two buckets before the allocate call: the earlier split is restored only
\* when nothing was reserved before.
C6_AllocateReclaim ==
    (allocSnap # << >> /\ allocSnap[3] = "reclaimed")
        => /\ reserved_funds = 0
           /\ available_funds = allocSnap[1] + allocSnap[2]

C6_Witness ==
    /\ allocSnap # << >>
    /\ allocSnap[3] = "reclaimed"
    /\ allocSnap[2] > 0
    /\ available_funds > allocSnap[1]

Rejections == {"rejected_funds", "rejected_loss", "rejected_positions", "rejected_trades"}

\* C7: a place_order the risk rules reject, or an allocate_funds refused for
\* lack of available funds, changes no order, position, trade, fund bucket or
\* trade count; the loss, position and trade limits let no order through.
C7_RejectionKeepsState ==
    [][ /\ last' \in Rejections \cup {"refused"} => UNCHANGED <<engine, db>>
        /\ last' = "rejected_loss" => Abs(daily_pnl) >= Rs(MAX_LOSS_PER_DAY)
        /\ last' = "rejected_positions" => Cardinality(DOMAIN positions) >= MAX_POSITIONS
        /\ last' = "rejected_trades" => trades_today >= MAX_TRADES_PER_DAY
        /\ last' = "rejected_funds" => available_funds < Rs(INITIAL_CAPITAL)
        /\ last' = "refused" => available_funds < Rs(INITIAL_CAPITAL)
        /\ (\/ Abs(daily_pnl) >= Rs(MAX_LOSS_PER_DAY)
            \/ Cardinality(DOMAIN positions) >= MAX_POSITIONS
            \/ trades_today >= MAX_TRADES_PER_DAY)
           => UNCHANGED <<orders, trades, trades_today, invested_funds>> ]_vars

C7_Witness ==
    /\ last = "rejected_trades"
    /\ trades_today = MAX_TRADES_PER_DAY
    /\ Len(orders) = MAX_TRADES_PER_DAY

\* C8: a restart that reloads the store leaves the funds, the positions and
\* every order's status as they were in memory.
C8_RestartRestores ==
    [][ Restart =>
          /\ funds' = funds
          /\ positions' = positions
          /\ DOMAIN orders' = DOMAIN orders
          /\ \A i \in DOMAIN orders : orders'[i].status = orders[i].status ]_vars

\* C9: every stored position has quantity = buy_quantity - sell_quantity and
\* quantity # 0, in memory and in the store: a fill that brings the quantity
\* to zero removes the position from both.
C9_NoFlatPosition ==
    /\ \A k \in DOMAIN positions :
          /\ positions[k].quantity = positions[k].buy_quantity - positions[k].sell_quantity
          /\ positions[k].quantity # 0
    /\ DOMAIN db.positions = DOMAIN positions
    /\ \A k \in DOMAIN db.positions : db.positions[k].quantity # 0

C9_Witness ==
    /\ closed # << >>
    /\ closed[1].buy_value > 0
    /\ positions = << >>
    /\ db.positions = << >>
    /\ Len(orders) >= 2

\* C10: cancel_order and modify_order leave an order that is not PENDING or
\* OPEN untouched and return False; no order leaves a terminal status; a
\* successful cancel moves the pending quantity into the cancelled quantity.
C10_TerminalOrders ==
    [][ /\ \A i \in DOMAIN orders :
              /\ i \in DOMAIN orders'
              /\ ~(orders[i].status \in {"PENDING", "OPEN"})
                    => orders'[i].status = orders[i].status
              /\ (orders[i].status # "CANCELLED" /\ orders'[i].status = "CANCELLED")
                    => /\ orders[i].status \in {"PENDING", "OPEN"}
                       /\ orders'[i].cancelled_quantity = orders[i].pending_quantity
                       /\ orders'[i].pending_quantity = 0
        /\ (OrdersCancel \/ OrdersModify)
              => \A i \in DOMAIN orders :
                    ~(orders[i].status \in {"PENDING", "OPEN"}) => orders'[i] = orders[i]
        /\ last' \in {"cancel_closed", "modify_closed"} => orders' = orders ]_vars

C10_Witness ==
    /\ last = "cancel_closed"
    /\ \E i \in DOMAIN orders : orders[i].status = "COMPLETE"
    /\ \E i \in DOMAIN orders :
          orders[i].status = "CANCELLED" /\ orders[i].cancelled_quantity > 0

\* C11: in a process configured for live mode, place_order, cancel_order and
\* modify_order raise before touching state: no order is created and no order,
\* position, fund or trade-log value changes, in memory or in the store.
C11_LiveModeRejects ==
    [][ /\ ~PAPER_TRADING_MODE /\ (LivePlace \/ LiveLimit \/ LiveCancel \/ LiveModify)
           => last' = "safety" /\ UNCHANGED <<engine, db>>
        /\ last' = "safety" => ~PAPER_TRADING_MODE /\ UNCHANGED <<engine, db>> ]_vars

\* a live-mode process holding an open order and a position has refused a call
C11_Witness ==
    /\ ~PAPER_TRADING_MODE
    /\ last = "safety"
    /\ \E i \in DOMAIN orders : Open(orders[i].status)
    /\ DOMAIN positions # {}

\* the positions as an update_ltp of the tick's symbol and price leaves them
Repriced ==
    [k \in DOMAIN positions |->
        IF positions[k].symbol = tick.symbol /\ positions[k].exchange = tick.exchange
        THEN _calculate_pnl([positions[k] EXCEPT !.last_price = tick.ltp])
        ELSE positions[k]]

\* C12: an update_ltp of the tick thread and a place_order fill that overlaps
\* it end as one of their two serial orders would.  With the price already
\* cached the fill is the same in both orders, so daily_pnl at the return of
\* update_ltp is either what update_ltp wrote plus the P&L the fill realized
\* (update_ltp first) or the sum over the positions the fill left (fill first).
C12_Serializable ==
    tick.pc = "done" /\ overlap[1].fills = 1 /\ overlap[1].same
        => \/ daily_pnl = overlap[1].sums + (realized_pnl - overlap[1].realized_pnl)
           \/ daily_pnl = TotalUnrealised(Repriced) + TotalRealised(Repriced)

\* the handler that returned last is _auto_square_off of the monitoring loop
AutoSquareOffReturned ==
    job = << >> /\ returned # << >> /\ returned[1].handler = "_auto_square_off"

\* auto square-off has run to its end, from the loop or from stop(True)
SquareOffCompleted ==
    \/ AutoSquareOffReturned
    \/ /\ job = << >> /\ returned # << >> /\ returned[1].handler = "stop"
       /\ returned[1].success /\ returned[1].square_off_positions

\* C13: once the monitoring loop has run auto square-off at square-off time,
\* the bot is STOPPED, the reserve is back in available funds, the strategies
\* are cleared and the loop has exited.
C13_SquareOffStopsBot ==
    AutoSquareOffReturned
        => /\ bot.status = "STOPPED"
           /\ reserved_funds = 0
           /\ bot.strategies = << >>
           /\ returned[1].thread \notin bot.threads

\* C14: after auto square-off no position is open in the paper engine.
C14_SquareOffFlattens == SquareOffCompleted => DOMAIN positions = {}

C16_StartOnlyWhenStopped ==
    [][ControlStart /\ bot.status # "STOPPED"
          => ~returned'[1].success /\ UNCHANGED <<engine, bot>>]_vars

C19_ExitOnStopOrTarget ==
    [][ /\ StrategyEvaluate
        /\ strategy.position # << >>
        /\ ExitReason(strategy.position[1], strategy'.position[1].current_price) # ""
        => /\ signal' # << >>
           /\ signal'[1].signal_type = "EXIT"
           /\ signal'[1].reason
                = ExitReason(strategy.position[1], strategy'.position[1].current_price) ]_vars

\* ---------------------------------------------------------------- C20
\* the close events fired for one (token, interval), as their bucket starts
RECURSIVE FiredStarts(_, _)
FiredStarts(f, key) ==
    IF f = << >> THEN << >>
    ELSE IF <<Head(f).instrument_token, Head(f).interval>> = key
    THEN <<Head(f).candle.timestamp>> \o FiredStarts(Tail(f), key)
    ELSE FiredStarts(Tail(f), key)

StrictlyIncreasing(s) == \A i \in 1..(Len(s) - 1) : s[i] < s[i + 1]

CandleKeys == Tokens \X DOMAIN INTERVALS

\* C20: a tick whose bucket for an interval starts before the bucket of the
\* open candle of its (token, interval) changes no candle of that pair and
\* fires no close event for it, and the close events of every (token, interval)
\* are fired in strictly increasing bucket_start order.
C20_LateTickDiscarded ==
    [][ CandleTick
        => \A key \in CandleKeys :
              LET t == ticked'[Len(ticked')]
              IN  /\ ( /\ t.instrument_token = key[1] /\ t.last_price # 0
                       /\ key \in DOMAIN current_candles
                       /\ _get_candle_start(t.timestamp, key[2]) < current_candles[key].timestamp
                       => /\ current_candles'[key] = current_candles[key]
                          /\ HistoryOf(historical_candles', key)
                               = HistoryOf(historical_candles, key)
                          /\ FiredStarts(fired', key) = FiredStarts(fired, key) )
                  /\ StrictlyIncreasing(FiredStarts(fired', key)) ]_vars

\* ---------------------------------------------------------------- C21
\* the timestamp floored to the interval's boundary
Floored(timestamp, minutes) == timestamp - (timestamp % minutes)

\* the ticks taken so far that fall in one bucket of a (token, interval), in
\* arrival order; priced leaves out the ticks that carry no price
BucketTicks(key, bucket_start, priced) ==
    LET InBucket(t) == /\ t.instrument_token = key[1]
                       /\ Floored(t.timestamp, INTERVALS[key[2]]) = bucket_start
                       /\ (priced => t.last_price # 0)
    IN  SelectSeq(ticked, InBucket)

\* the open candle of a (token, interval) and its closed ones
CandlesOf(key) ==
    {HistoryOf(historical_candles, key)[i] : i \in DOMAIN HistoryOf(historical_candles, key)}
    \cup (IF key \in DOMAIN current_candles THEN {current_candles[key]} ELSE {})

Summarises(c, ts) ==
    /\ ts # << >>
    /\ c.open = ts[1].last_price
    /\ c.close = ts[Len(ts)].last_price
    /\ \A i \in DOMAIN ts : c.low <= ts[i].last_price /\ ts[i].last_price <= c.high
    /\ \E i \in DOMAIN ts : c.low = ts[i].last_price
    /\ \E i \in DOMAIN ts : c.high = ts[i].last_price
    /\ c.tick_count = Len(ts)
    /\ c.low <= c.open /\ c.open <= c.high
    /\ c.low <= c.close /\ c.close <= c.high

\* every candle summarises the ticks of its bucket, and every such tick has
\* its candle
CandlesSummarise(priced) ==
    \A key \in CandleKeys :
        /\ \A c \in CandlesOf(key) : Summarises(c, BucketTicks(key, c.timestamp, priced))
        /\ \A i \in DOMAIN ticked :
               ticked[i].instrument_token = key[1] /\ (priced => ticked[i].last_price # 0)
               => \E c \in CandlesOf(key) :
                      c.timestamp = Floored(ticked[i].timestamp, INTERVALS[key[2]])

\* C21 as stated: for ticks arriving in timestamp order, each candle summarises
\* exactly the ticks whose timestamp floored to the interval equals its
\* bucket_start: open the first price, close the last, low the min, high the
\* max, tick_count their number, and low <= open, close <= high.
C21_AsStated == CandlesSummarise(FALSE)

\* C21: for ticks arriving in timestamp order, each candle summarises exactly
\* the ticks carrying a price (last_price other than 0) whose timestamp floored
\* to the interval equals its bucket_start, a tick on a boundary belonging to
\* the new bucket: open the first price, close the last, low the min, high the
\* max, tick_count their number, and low <= open, close <= high.
C21_CandleSummarises == CandlesSummarise(TRUE)

\* a tick on the 10:00 boundary closed the 09:59 candle and the 5min one, and
\* the open 1min candle holds two ticks of different prices
C21_Witness ==
    /\ Len(ticked) = 3
    /\ ticked[2].timestamp = 600 /\ ticked[1].timestamp = 599
    /\ <<256265, "1min">> \in DOMAIN current_candles
    /\ current_candles[<<256265, "1min">>].tick_count = 2
    /\ current_candles[<<256265, "1min">>].low < current_candles[<<256265, "1min">>].high
    /\ Len(HistoryOf(historical_candles, <<256265, "5min">>)) = 1

\* ---------------------------------------------------------------- C22
\* C22: the builder holds at most one open candle per (token, interval) and at
\* most 500 closed candles per (token, interval); when a 501st candle closes
\* the oldest is evicted and the remaining ones keep their order; every candle
\* in the closed ring has is_closed = true and is never changed again.
C22_BoundedRing ==
    [][ \A key \in CandleKeys :
           LET h == HistoryOf(historical_candles, key)
               g == HistoryOf(historical_candles', key)
           IN  /\ Len(g) <= 500
               /\ \A i \in DOMAIN g : g[i].is_closed
               /\ \/ g = h
                  \/ Len(h) < 500 /\ Len(g) = Len(h) + 1 /\ SubSeq(g, 1, Len(h)) = h
                  \/ Len(h) = 500 /\ Len(g) = 500 /\ SubSeq(g, 1, 499) = Tail(h)
               /\ Cardinality({k \in DOMAIN current_candles' : k = key}) <= 1 ]_vars

\* the 501st 1min candle has closed and the 09:15 one is gone from the ring
C22_Witness ==
    /\ Len(HistoryOf(historical_candles, <<256265, "1min">>)) = 500
    /\ HistoryOf(historical_candles, <<256265, "1min">>)[1].timestamp = RunStart + 1
    /\ HistoryOf(historical_candles, <<256265, "1min">>)[500].timestamp = RunStart + 500

\* ---------------------------------------------------------------- C23
\* C23: candle-close handlers are invoked after the builder's mutex has been
\* released: while a handler runs the lock is free, and a handler that calls
\* get_current_candle or get_historical_candles on the builder is never left
\* waiting for the lock (so the process_tick call that fired it completes).
C23_HandlersOutsideLock ==
    /\ feeder.pc = "callback" => lock = "free"
    /\ feeder.pc # "blocked"

\* ---------------------------------------------------------------- C24
\* the symbols whose brick, limits set, just took a price in update_brick
JustUpdated ==
    {symbol \in DOMAIN renko_state \cap DOMAIN fed :
        /\ symbol \in DOMAIN fed'
        /\ Len(fed'[symbol].prices) = Len(fed[symbol].prices) + 1
        /\ renko_state[symbol].upper_limit # None}

\* C24: once a symbol's limits are set, upper_limit - lower_limit is twice
\* brick_size after every call; a price equal to upper_limit or lower_limit
\* forms no brick and changes neither the limits nor brick_count; a price
\* strictly beyond a limit forms at least one brick.
C24_RenkoBand ==
    [][ /\ \A symbol \in DOMAIN renko_state' :
              renko_state'[symbol].upper_limit # None
              => renko_state'[symbol].upper_limit - renko_state'[symbol].lower_limit
                   = 2 * renko_state'[symbol].brick_size
        /\ \A symbol \in JustUpdated :
              LET brick == renko_state[symbol]
                  after == renko_state'[symbol]
                  price == fed'[symbol].prices[Len(fed'[symbol].prices)]
              IN  /\ price = brick.upper_limit \/ price = brick.lower_limit
                     => /\ ~renko_result'[1].brick_formed
                        /\ after.upper_limit = brick.upper_limit
                        /\ after.lower_limit = brick.lower_limit
                        /\ after.brick_count = brick.brick_count
                  /\ price > brick.upper_limit
                     => /\ renko_result'[1].brick_formed
                        /\ after.upper_limit >= brick.upper_limit + brick.brick_size
                  /\ price < brick.lower_limit
                     => /\ renko_result'[1].brick_formed
                        /\ after.lower_limit <= brick.lower_limit - brick.brick_size ]_vars

\* after bricks in both directions, a price equal to a limit formed no brick
C24_Witness ==
    /\ "RELIANCE" \in DOMAIN renko_state
    /\ renko_state["RELIANCE"].brick_count # 0
    /\ renko_state["RELIANCE"].last_price \in {renko_state["RELIANCE"].upper_limit,
                                               renko_state["RELIANCE"].lower_limit}
    /\ Len(fed["RELIANCE"].prices) >= 3
    /\ renko_result # << >> /\ ~renko_result[1].blocked /\ ~renko_result[1].brick_formed

\* ---------------------------------------------------------------- C25
\* the scenario: brick_size 1 initialised at price 100, then the prices given
Scenario(symbol, prices) ==
    /\ symbol \in DOMAIN fed
    /\ fed[symbol].initial_price = 1000
    /\ renko_state[symbol].brick_size = 10
    /\ fed[symbol].prices = prices

\* count and limits of a symbol's brick
BrickIs(symbol, brick_count, upper_limit, lower_limit) ==
    /\ renko_state[symbol].brick_count = brick_count
    /\ renko_state[symbol].upper_limit = upper_limit
    /\ renko_state[symbol].lower_limit = lower_limit

\* C25 as stated: brick_size 1 initialised at 100; after 100.5, 101.2, 102.5 the
\* count is 2 with limits (103, 101); after the next price 99.8 the count is -1
\* and the limits are upper 100, lower 98.
C25_AsStated ==
    \A symbol \in RenkoSymbols :
        /\ Scenario(symbol, <<1005, 1012, 1025>>) => BrickIs(symbol, 2, 1030, 1010)
        /\ Scenario(symbol, <<1005, 1012, 1025, 998>>) => BrickIs(symbol, -1, 1000, 980)

\* C25: brick_size 1 initialised at 100; after 100.5, 101.2, 102.5 the count is
\* 2 with limits (103, 101); after the next price 99.8 the count is -1 and the
\* limits are upper 101, lower 99.
C25_RenkoScenario ==
    \A symbol \in RenkoSymbols :
        /\ Scenario(symbol, <<1005, 1012, 1025>>) => BrickIs(symbol, 2, 1030, 1010)
        /\ Scenario(symbol, <<1005, 1012, 1025, 998>>) => BrickIs(symbol, -1, 1010, 990)

C25_Witness == Scenario("RELIANCE", <<1005, 1012, 1025, 998>>)

\* ---------------------------------------------------------------- C26
\* C26: for every update that forms bricks, the sign of brick_count is the
\* direction of the bricks just formed; a brick event in the direction of the
\* current sign never lowers |brick_count|; a brick event in the opposite
\* direction sets |brick_count| to exactly 1, however many bricks it forms.
C26_RunAndFlip ==
    [][ \A symbol \in JustUpdated :
           LET brick == renko_state[symbol]
               after == renko_state'[symbol]
               price == fed'[symbol].prices[Len(fed'[symbol].prices)]
               up == price > brick.upper_limit
               down == price < brick.lower_limit
           IN  /\ up => after.brick_count > 0
               /\ down => after.brick_count < 0
               /\ (up /\ brick.brick_count > 0) \/ (down /\ brick.brick_count < 0)
                  => Abs(after.brick_count) >= Abs(brick.brick_count)
               /\ (up /\ brick.brick_count < 0) \/ (down /\ brick.brick_count > 0)
                  => Abs(after.brick_count) = 1 ]_vars

\* ---------------------------------------------------------------- C27
\* C27: unsubscribe(tokens) on a disconnected hub is queued like subscribe: on
\* the next (re)connect exactly the tokens the calls ask for are subscribed
\* upstream and are in the hub's subscription set, so unsubscribed tokens are
\* absent from both and tokens subscribed while disconnected are applied; and
\* subscribing an already-subscribed token leaves the set unchanged.
C27_QueuedWhileDisconnected ==
    [][ /\ link = "connecting" /\ link' = "up"
           => subscribed' = requested.tokens /\ hub'.subscribed_tokens = requested.tokens
        /\ /\ requested'.op = "subscribe" /\ requested' # requested
           /\ requested'.of \subseteq hub.subscribed_tokens
           => hub'.subscribed_tokens = hub.subscribed_tokens ]_vars

\* ---------------------------------------------------------------- C28
\* C28: the count of consecutive reconnect attempts never exceeds
\* max_reconnect_attempts (10): an upstream close below the bound triggers one
\* attempt, at the bound it triggers none, and only a successful connect
\* resets the count to 0.
C28_BoundedReconnect ==
    [][ /\ hub'.reconnect_attempts <= 10
        /\ hub'.reconnect_attempts > hub.reconnect_attempts
           => /\ hub'.reconnect_attempts = hub.reconnect_attempts + 1
              /\ link \in {"connecting", "up", "closing"} /\ link' = "connecting"
        /\ hub.reconnect_attempts = 10 /\ link # "down" /\ link' # "up" /\ link' # link
           => link' \in {"down", "closing"} /\ hub'.reconnect_attempts = 10
        /\ hub'.reconnect_attempts < hub.reconnect_attempts
           => hub'.reconnect_attempts = 0 /\ link = "connecting" /\ link' = "up" ]_vars

\* ten attempts in a row were closed, and the tenth close started none
C28_Witness == hub.reconnect_attempts = 10 /\ link = "down" /\ hub.ticker

\* ---------------------------------------------------------------- C29
\* the scenario call: interval 5minute, 2024-01-01 to 2024-05-01, no failure
ScenarioFetch ==
    /\ fetch # << >>
    /\ fetch[1].interval = "5minute"
    /\ fetch[1].from_date = Date(1, 1) /\ fetch[1].to_date = Date(5, 1)
    /\ ~fetch[1].raised

Window(from_date, to_date) == [from_date |-> from_date, to_date |-> to_date]

\* C29 as stated: for interval 5minute (limit 60 days) and the range 2024-01-01
\* to 2024-05-01, get_historical_data issues exactly 2 upstream requests,
\* [Jan 1, Mar 1] and [Mar 1, May 1].
C29_AsStated ==
    ScenarioFetch
    => fetch[1].windows = <<Window(Date(1, 1), Date(3, 1)), Window(Date(3, 1), Date(5, 1))>>

\* C29: for interval 5minute (limit 60 days) and the range 2024-01-01 to
\* 2024-05-01 (121 days), get_historical_data issues exactly 3 upstream
\* requests, [Jan 1, Mar 1], [Mar 1, Apr 30] and [Apr 30, May 1].
C29_ThreeWindows ==
    ScenarioFetch
    => fetch[1].windows = <<Window(Date(1, 1), Date(3, 1)), Window(Date(3, 1), Date(4, 30)),
                            Window(Date(4, 30), Date(5, 1))>>

C29_Witness == ScenarioFetch /\ Len(fetch[1].rows) > 0

\* ---------------------------------------------------------------- C30
\* a call whose day count exceeds the limit of its interval
Chunked == fetch # << >> /\ fetch[1].to_date - fetch[1].from_date > limits(fetch[1].interval)

\* C30: for a range whose day count exceeds the interval's limit, the windows
\* start at from, end at to, are contiguous and span at most limit days each;
\* the result holds every upstream record dated in [from, to] exactly once,
\* the first occurrence kept, in ascending order; and if a window request
\* fails the fetch raises and returns no rows.
C30_ChunkedFetch ==
    Chunked =>
        LET f == fetch[1]
            w == f.windows
        IN  IF f.raised
            THEN f.rows = << >>
            ELSE /\ w # << >>
                 /\ w[1].from_date = f.from_date
                 /\ w[Len(w)].to_date = f.to_date
                 /\ \A i \in 1..(Len(w) - 1) : w[i + 1].from_date = w[i].to_date
                 /\ \A i \in DOMAIN w :
                        /\ w[i].from_date < w[i].to_date
                        /\ w[i].to_date - w[i].from_date <= limits(f.interval)
                 /\ \A i \in 1..(Len(f.rows) - 1) : f.rows[i].date < f.rows[i + 1].date
                 /\ {f.rows[i].date : i \in DOMAIN f.rows}
                      = {date \in CandleDates : f.from_date <= date /\ date <= f.to_date}
                 /\ \A i \in DOMAIN f.rows :
                        \A n \in DOMAIN w :
                            w[n].from_date <= f.rows[i].date /\ f.rows[i].date <= w[n].to_date
                            => f.rows[i].request <= n

\* three windows or more, with a candle on a boundary two windows return
C30_Witness ==
    /\ Chunked /\ ~fetch[1].raised
    /\ Len(fetch[1].windows) >= 3
    /\ \E i \in DOMAIN fetch[1].rows : fetch[1].rows[i].date = fetch[1].windows[1].to_date

\* ---------------------------------------------------------------- C31
\* C31: at every instant the market status is CLOSED with session WEEKEND on
\* a Saturday or Sunday, CLOSED with session HOLIDAY on a weekday listed as a
\* holiday, and otherwise goes by the market-local time: PRE-OPEN in
\* [09:00, 09:15), OPEN in [09:15, 15:30), CLOSED post-market in
\* [15:30, 16:00), CLOSED after-hours at any other time, each boundary
\* instant belonging to the later interval; and should_stream_data is true
\* exactly when the status is OPEN or PRE-OPEN.
C31_MarketStatus ==
    market # << >> =>
        LET now == market[1].now
            got == market[1].got
            t == now.second
            at(h, m) == (h * 60 + m) * 60
        IN  /\ IF weekday(now.date[1], now.date[2]) >= 5
               THEN got = [status |-> "CLOSED", session |-> "WEEKEND"]
               ELSE IF now.date \in HOLIDAYS_2025
               THEN got = [status |-> "CLOSED", session |-> "HOLIDAY"]
               ELSE IF at(9, 0) <= t /\ t < at(9, 15)
               THEN got.status = "PRE-OPEN"
               ELSE IF at(9, 15) <= t /\ t < at(15, 30)
               THEN got.status = "OPEN"
               ELSE IF at(15, 30) <= t /\ t < at(16, 0)
               THEN got = [status |-> "CLOSED", session |-> "POST-MARKET"]
               ELSE got = [status |-> "CLOSED", session |-> "AFTER-HOURS"]
            /\ market[1].should_stream_data <=> got.status \in {"OPEN", "PRE-OPEN"}

\* ---------------------------------------------------------------- C32
\* C32: across any sequence of start() and stop() calls at most one
\* monitoring loop is alive at a time: the loop a start() launched has exited
\* when the stop() that follows it has returned, and so takes no pass beside
\* the loop of a later start().
C32_SingleLoop == Cardinality(bot.threads) <= 1

\* ---------------------------------------------------------------- C33
\* C33: in every state place_order calls reach from an empty engine the
\* number of open positions is at most max_positions and trades_today is at
\* most max_trades_per_day.
C33_WithinLimits ==
    /\ Cardinality(DOMAIN positions) <= MAX_POSITIONS
    /\ trades_today <= MAX_TRADES_PER_DAY

\* the day's last allowed trade done with a position to spare: the order after
\* it is turned away for the trade count
C33_Witness ==
    /\ trades_today = MAX_TRADES_PER_DAY
    /\ Cardinality(DOMAIN positions) < MAX_POSITIONS
    /\ last = "rejected_trades"
    /\ Len(trades) = MAX_TRADES_PER_DAY

\* ---------------------------------------------------------------- C34
\* C34: an accepted MARKET BUY debits exactly the cost it was checked
\* against, the quantity times the price the funds check used (the price hint
\* when one is given), so that available_funds and reserved_funds are never
\* negative.
C34_DebitIsCheckedCost ==
    [][ /\ (/\ Len(orders') = Len(orders) + 1
            /\ orders'[Len(orders')].status = "COMPLETE"
            /\ orders'[Len(orders')].order_type = "MARKET"
            /\ orders'[Len(orders')].transaction_type = "BUY")
           => LET o == orders'[Len(orders')]
                  checked == RequiredFunds(o.tradingsymbol, o.exchange, "BUY", o.quantity,
                                           o.price)
              IN  (available_funds + reserved_funds)
                      - (available_funds' + reserved_funds') = checked
        /\ available_funds' >= 0
        /\ reserved_funds' >= 0 ]_vars

\* ---------------------------------------------------------------- C35
\* C35: a short position opened by a SELL fill of q shares at p1, with no
\* position held before, and covered by a BUY fill of q shares at p2: the
\* opening SELL adds nothing to realized_pnl, the round trip adds exactly
\* q * (p1 - p2) to it, and invested_funds is back at its value before the
\* trade once the position is closed.
C35_ShortRoundTrip ==
    [][ Len(orders') = Len(orders) + 1 /\ orders'[Len(orders')].status = "COMPLETE"
        => LET o == orders'[Len(orders')]
               key == <<o.tradingsymbol, o.exchange, o.product>>
               value == o.quantity * o.average_price
           IN  /\ o.transaction_type = "SELL" /\ key \notin DOMAIN positions
                  => realized_pnl' = realized_pnl
               /\ (/\ o.transaction_type = "BUY"
                   /\ closed' # << >>
                   /\ closed'[1].sells = 1
                   /\ closed'[1].buy_value = value)
                  => /\ closed'[1].real = closed'[1].sell_value - value
                     /\ closed'[1].rel = value ]_vars

\* ---------------------------------------------------------------- C36
\* C36: update_ltp(symbol, exchange, price) changes only the LTP cache entry
\* of (symbol, exchange) and the last_price and unrealised P&L of the
\* positions of that symbol and exchange; available_funds, reserved_funds,
\* invested_funds, realized_pnl, daily_pnl, total_pnl, trades_today, the
\* orders and the trade log stay as they were.
C36_LtpFrame ==
    [][ \A symbol \in Symbols, exchange \in Exchanges, ltp \in LtpPrices :
          update_ltp(symbol, exchange, ltp) =>
             /\ UNCHANGED <<available_funds, reserved_funds, invested_funds, realized_pnl,
                            daily_pnl, total_pnl, trades_today, orders, trades>>
             /\ \A k \in DOMAIN ltp_cache :
                   k # <<exchange, symbol>> => ltp_cache'[k] = ltp_cache[k]
             /\ DOMAIN positions' = DOMAIN positions
             /\ \A k \in DOMAIN positions :
                   IF positions[k].symbol = symbol /\ positions[k].exchange = exchange
                   THEN positions'[k] = [positions[k] EXCEPT
                                            !.last_price = ltp,
                                            !.unrealised_pnl = positions'[k].unrealised_pnl]
                   ELSE positions'[k] = positions[k] ]_vars

\* ---------------------------------------------------------------- C37
\* C37: every update_brick(symbol, price) call returns; for a symbol with no
\* state it initialises the state with brick size 1.0, limits price + 1 and
\* price - 1 and count 0, and returns brick_formed = false, without blocking
\* on the calculator's own lock.
C37_UpdateReturns ==
    [][ \A symbol \in RenkoSymbols, price \in RenkoPrices :
          update_brick(symbol, price) =>
             /\ ~renko_result'[1].blocked
             /\ renko_lock' = "free"
             /\ symbol \notin DOMAIN renko_state =>
                   /\ symbol \in DOMAIN renko_state'
                   /\ renko_state'[symbol].brick_size = 10
                   /\ renko_state'[symbol].upper_limit = price + 10
                   /\ renko_state'[symbol].lower_limit = price - 10
                   /\ renko_state'[symbol].brick_count = 0
                   /\ ~renko_result'[1].brick_formed ]_vars

\* ---------------------------------------------------------------- C38
\* C38: across any sequence of TickProcessor start() and stop() calls the
\* processor's tick handler is registered with the hub at most once, so that
\* every upstream tick is applied exactly once to each candle of its token
\* (tick_count grows by 1 per tick) and leads to at most one update_ltp.
C38_HandlerOnce ==
    [][ /\ Len(hub'.tick_callbacks) <= 1
        /\ ticked' # ticked =>
              LET t == ticked'[Len(ticked')]
              IN  /\ delivered'[1].update_ltp <= 1
                  /\ \A i \in DOMAIN IntervalKeys :
                        LET key == <<t.instrument_token, IntervalKeys[i]>>
                            candle_start == _get_candle_start(t.timestamp, IntervalKeys[i])
                            before == IF /\ key \in DOMAIN current_candles
                                         /\ current_candles[key].timestamp = candle_start
                                      THEN current_candles[key].tick_count ELSE 0
                        IN  /\ key \in DOMAIN current_candles'
                            /\ current_candles'[key].tick_count = before + 1 ]_vars

C40_StaysDisconnected ==
    [][ link = "closing" /\ link' # "closing"
        => /\ link' = "down"
           /\ ~hub'.is_connected
           /\ hub'.reconnect_attempts = hub.reconnect_attempts ]_vars

====
